---------------------------- MODULE Spec2Model ----------------------------
(***************************************************************************)
(* A model of sequana's VCF filters (sequana/vcf_filter.py and             *)
(* sequana/freebayes_vcf_filter.py), of BUSCO.save_core_genomes            *)
(* (sequana/assembly.py) and of TRF.scandata (sequana/trf.py).             *)
(*                                                                         *)
(* Conventions                                                             *)
(*  - A Python str is a sequence of one-character strings, so that         *)
(*    split, strip, startswith, slicing and float() are computed           *)
(*    character by character.                                              *)
(*  - A Python number is an integer counting hundredths: 0.75 is 75 and    *)
(*    30 is 3000.  Every comparison of the code is a comparison of two     *)
(*    such numbers; a division a/b compared with r is a*Scale compared     *)
(*    with r*b for b > 0.  Decimal literals carry at most two fractional   *)
(*    digits.                                                              *)
(*  - A call returns a string: "True", "False", or the name of the         *)
(*    exception that leaves it ("ValueError", "KeyError", ...).            *)
(***************************************************************************)
EXTENDS Integers, Sequences, FiniteSets, TLC

VARIABLES
    \* --- a direct call of one method (specifications SpecFn, SpecLine)
    call,               \* the call made: [fn |-> ..., arguments]
    ret,                \* what it returned or raised; "pending" before
    \* --- the engine object, VCF_mpileup_4dot1
    filter_dict,        \* self.filter_dict: [QUAL, INFO]
    apply_dp4_filter,
    apply_af1_filter,
    apply_indel_filter,
    dp4_minimum_depth,
    dp4_minimum_depth_strand,
    dp4_minimum_ratio,
    minimum_af1,
    \* --- the reader the engine is (VCFBase)
    file,               \* the records of the VCF file, in file order
    pos,                \* how many records the reader has consumed
    \* --- one filter_vcf pass
    pc,                 \* "idle", "scanning", "done", "raised"
    fv,                 \* the frame of filter_vcf (locals, files, result)
    \* --- the engine object, VCF_freebayes
    _filters_params,    \* self._filters_params: a dict of the parameters
    _is_joint           \* self._is_joint

cfgVars == <<filter_dict, apply_dp4_filter, apply_af1_filter,
             apply_indel_filter, dp4_minimum_depth, dp4_minimum_depth_strand,
             dp4_minimum_ratio, minimum_af1>>
fbVars == <<_filters_params, _is_joint>>
callVars == <<call, ret>>
passVars == <<file, pos, pc, fv>>
vars == <<call, ret, filter_dict, apply_dp4_filter, apply_af1_filter,
          apply_indel_filter, dp4_minimum_depth, dp4_minimum_depth_strand,
          dp4_minimum_ratio, minimum_af1, file, pos, pc, fv,
          _filters_params, _is_joint>>

-----------------------------------------------------------------------------
(* Numbers and strings *)

Scale == 10 * 10

Digits == <<"0", "1", "2", "3", "4", "5", "6", "7", "8", "9">>

IsDigit(c) == \E i \in 1..10 : Digits[i] = c

DigitVal(c) == (CHOOSE i \in 1..10 : Digits[i] = c) - 1

IsSpace(c) == c = " "

\* sub in s, for a one-character sub
Contains(s, c) == \E i \in 1..Len(s) : s[i] = c

\* s.startswith(p)
StartsWith(s, p) ==
    /\ Len(s) >= Len(p)
    /\ \A i \in 1..Len(p) : s[i] = p[i]

\* s[n:], n counted from 0 as in Python
From(s, n) == IF n >= Len(s) THEN <<>> ELSE SubSeq(s, n + 1, Len(s))

\* s.strip()
RECURSIVE LStrip(_)
LStrip(s) ==
    IF s # <<>> /\ IsSpace(Head(s)) THEN LStrip(Tail(s)) ELSE s

RECURSIVE RStrip(_)
RStrip(s) ==
    IF s # <<>> /\ IsSpace(s[Len(s)])
    THEN RStrip(SubSeq(s, 1, Len(s) - 1))
    ELSE s

Strip(s) == RStrip(LStrip(s))

\* s.split(c): the pieces of s between the occurrences of the character c
RECURSIVE SplitFrom(_, _, _)
SplitFrom(s, c, cur) ==
    IF s = <<>> THEN <<cur>>
    ELSE IF Head(s) = c THEN <<cur>> \o SplitFrom(Tail(s), c, <<>>)
    ELSE SplitFrom(Tail(s), c, Append(cur, Head(s)))

Split(s, c) == SplitFrom(s, c, <<>>)

\* s.split(c, 1): at most one cut, at the first occurrence of c
Split1(s, c) ==
    IF ~Contains(s, c) THEN <<s>>
    ELSE LET i == CHOOSE k \in 1..Len(s) :
                     s[k] = c /\ \A j \in 1..(k - 1) : s[j] # c
         IN <<SubSeq(s, 1, i - 1), SubSeq(s, i + 1, Len(s))>>

\* the value of a run of digits
RECURSIVE DigitsVal(_)
DigitsVal(s) ==
    IF s = <<>> THEN 0
    ELSE 10 * DigitsVal(SubSeq(s, 1, Len(s) - 1)) + DigitVal(s[Len(s)])

AllDigits(s) == \A i \in 1..Len(s) : IsDigit(s[i])

\* the fractional digits of a literal, in hundredths
FracVal(s) ==
    IF Len(s) = 0 THEN 0
    ELSE IF Len(s) = 1 THEN 10 * DigitVal(s[1])
    ELSE 10 * DigitVal(s[1]) + DigitVal(s[2])

\* a literal's sign, and the literal without it
IsNegative(t) == t # <<>> /\ Head(t) = "-"

Unsigned(t) == IF t # <<>> /\ Head(t) \in {"-", "+"} THEN Tail(t) ELSE t

\* the value of digits [. digits], given its pieces around the "."
DecimalValue(ps, neg) ==
    IF Len(ps) = 1 /\ ps[1] # <<>> /\ AllDigits(ps[1])
    THEN [ok |-> TRUE,
          val |-> IF neg THEN -(Scale * DigitsVal(ps[1]))
                  ELSE Scale * DigitsVal(ps[1])]
    ELSE IF /\ Len(ps) = 2 /\ AllDigits(ps[1]) /\ AllDigits(ps[2])
            /\ Len(ps[1]) + Len(ps[2]) > 0
    THEN [ok |-> TRUE,
          val |-> IF neg THEN -(Scale * DigitsVal(ps[1]) + FracVal(ps[2]))
                  ELSE Scale * DigitsVal(ps[1]) + FracVal(ps[2])]
    ELSE [ok |-> FALSE, val |-> 0]

ParseDecimal(t) == DecimalValue(Split(Unsigned(t), "."), IsNegative(t))

\* float(s): [ok |-> FALSE] stands for ValueError.  The literals read are
\* [+-] digits [. digits], surrounded by optional blanks.
ParseFloat(s) == ParseDecimal(Strip(s))

IntegerValue(body, neg) ==
    IF body # <<>> /\ AllDigits(body)
    THEN [ok |-> TRUE,
          val |-> IF neg THEN -DigitsVal(body) ELSE DigitsVal(body)]
    ELSE [ok |-> FALSE, val |-> 0]

ParseInteger(t) == IntegerValue(Unsigned(t), IsNegative(t))

\* int(s): [ok |-> FALSE] stands for ValueError
ParseInt(s) == ParseInteger(Strip(s))

\* str(n) for a natural number n
RECURSIVE NatStr(_)
NatStr(n) ==
    IF n < 10 THEN <<Digits[n + 1]>>
    ELSE NatStr(n \div 10) \o <<Digits[(n % 10) + 1]>>

\* the decimal literal of a number m >= 0: "30", "0.75"
MagStr(m) ==
    NatStr(m \div Scale)
    \o (IF m % Scale = 0 THEN <<>>
        ELSE <<".", Digits[((m % Scale) \div 10) + 1],
               Digits[(m % 10) + 1]>>)

\* the decimal literal of a number: "30", "-1", "0.75"
NumStr(x) == IF x < 0 THEN <<"-">> \o MagStr(-x) ELSE MagStr(x)

-----------------------------------------------------------------------------
(* VCF_mpileup_4dot1._filter_info_field *)

\* info_value compared with float(...) = p
CompareTo_Strict(info_value, p, op) ==
    IF ~p.ok THEN "ValueError"
    ELSE IF op \in {"<=", "<"}
         THEN (IF info_value < p.val THEN "True" ELSE "False")
         ELSE (IF info_value > p.val THEN "True" ELSE "False")

\* info_value compared with float(...) = p; float() may raise ValueError
CompareTo(info_value, p, op) ==
    IF ~p.ok THEN "ValueError"
    ELSE IF op = "<=" THEN (IF info_value <= p.val THEN "True" ELSE "False")
    ELSE IF op = "<"  THEN (IF info_value <  p.val THEN "True" ELSE "False")
    ELSE IF op = ">=" THEN (IF info_value >= p.val THEN "True" ELSE "False")
    ELSE (IF info_value > p.val THEN "True" ELSE "False")

\* a comparison clause: threshold[n:] is read by float()
Compare(info_value, threshold, n, op) ==
    CompareTo(info_value, ParseFloat(From(threshold, n)), op)

RECURSIVE _filter_info_field(_, _)

\* r1 and <the evaluation of exp2>: exp2 is evaluated only when r1 is True
AndThen(r1, info_value, exp2) ==
    IF r1 # "True" THEN r1                    \* False, or the exception
    ELSE _filter_info_field(info_value, exp2)

\* r1 or <the evaluation of exp2>: exp2 is evaluated only when r1 is False
OrElse(r1, info_value, exp2) ==
    IF r1 # "False" THEN r1                   \* True, or the exception
    ELSE _filter_info_field(info_value, exp2)

\* exp1, exp2 = threshold.split("&"); return f(exp1) and f(exp2)
AndParts(info_value, parts) ==
    IF Len(parts) # 2 THEN "ValueError"       \* the unpacking takes two
    ELSE AndThen(_filter_info_field(info_value, Strip(parts[1])),
                 info_value, Strip(parts[2]))

\* exp1, exp2 = threshold.split("|"); return f(exp1) or f(exp2)
OrParts(info_value, parts) ==
    IF Len(parts) # 2 THEN "ValueError"
    ELSE OrElse(_filter_info_field(info_value, Strip(parts[1])),
                info_value, Strip(parts[2]))

\* _filter_info_field looking for "|" before "&"
_filter_info_field_OrFirst(info_value, threshold) ==
    IF Contains(threshold, "|") THEN OrParts(info_value, Split(threshold, "|"))
    ELSE IF Contains(threshold, "&") THEN AndParts(info_value, Split(threshold, "&"))
    ELSE IF StartsWith(threshold, <<"<">>) THEN
        IF StartsWith(threshold, <<"<", "=">>)
        THEN Compare(info_value, threshold, 2, "<=")
        ELSE Compare(info_value, threshold, 1, "<")
    ELSE IF StartsWith(threshold, <<">">>) THEN
        IF StartsWith(threshold, <<">", "=">>)
        THEN Compare(info_value, threshold, 2, ">=")
        ELSE Compare(info_value, threshold, 1, ">")
    ELSE "False"

_filter_info_field(info_value, threshold) ==
    IF Contains(threshold, "&") THEN AndParts(info_value, Split(threshold, "&"))
    ELSE IF Contains(threshold, "|") THEN OrParts(info_value, Split(threshold, "|"))
    ELSE IF StartsWith(threshold, <<"<">>) THEN
        IF StartsWith(threshold, <<"<", "=">>)
        THEN Compare(info_value, threshold, 2, "<=")
        ELSE Compare(info_value, threshold, 1, "<")
    ELSE IF StartsWith(threshold, <<">">>) THEN
        IF StartsWith(threshold, <<">", "=">>)
        THEN Compare(info_value, threshold, 2, ">=")
        ELSE Compare(info_value, threshold, 1, ">")
    ELSE "False"

-----------------------------------------------------------------------------
(* Python values *)

\* None, where a str is expected
None == <<"None">>

\* a number that may be None (QUAL, iline)
Num(x) == [none |-> FALSE, val |-> x]

NoneNum == [none |-> TRUE, val |-> 0]

\* an INFO value: a number, or a list of numbers
Scalar(x) == [isList |-> FALSE, val |-> x, items |-> <<>>]

List(s) == [isList |-> TRUE, val |-> 0, items |-> s]

\* a whole number n, in hundredths
N(n) == n * Scale

\* the names used as INFO keys and in rule keys
K_DP == <<"D", "P">>

K_DP4 == <<"D", "P", "4">>

K_AF1 == <<"A", "F", "1">>

K_INDEL == <<"I", "N", "D", "E", "L">>

K_PV4 == <<"P", "V", "4">>

K_MQ == <<"M", "Q">>

-----------------------------------------------------------------------------
(* The built-in filters of VCF_mpileup_4dot1 *)

is_polymorphic(variant) ==
    IF variant.ALT[1] = None \/ Strip(variant.ALT[1]) = <<".">>
    THEN FALSE
    ELSE TRUE

\* variant.REF is a str, so variant.REF[0] is its first character
is_indel(variant) ==
    IF variant.ALT[1] # None /\ Contains(variant.ALT[1], ",") THEN TRUE
    ELSE IF Contains(<<variant.REF[1]>>, ",") THEN TRUE
    ELSE IF K_INDEL \in DOMAIN variant.INFO /\ variant.INFO[K_INDEL].val # 0
         THEN TRUE
    ELSE FALSE

\* is_valid_af1 with the bound of the non-polymorphic branch excluded
is_valid_af1_Strict(variant, min_af1) ==
    IF K_AF1 \notin DOMAIN variant.INFO THEN TRUE
    ELSE IF is_polymorphic(variant)
         THEN (IF variant.INFO[K_AF1].val < min_af1 THEN FALSE ELSE TRUE)
         ELSE (IF variant.INFO[K_AF1].val >= Scale - min_af1 THEN FALSE ELSE TRUE)

is_valid_af1(variant, min_af1) ==
    IF K_AF1 \notin DOMAIN variant.INFO THEN TRUE
    ELSE IF is_polymorphic(variant)
         THEN (IF variant.INFO[K_AF1].val < min_af1 THEN FALSE ELSE TRUE)
         ELSE (IF variant.INFO[K_AF1].val > Scale - min_af1 THEN FALSE ELSE TRUE)

\* a / b < r, for the ratio a / b the code computes when b > 0
RatioBelow(a, b, r) == a * Scale < r * b

\* is_valid_dp4 with each ratio taken over the allele's two strands instead
\* of over the strand's two alleles
is_valid_dp4_AlleleRatio(variant, minimum_depth, minimum_depth_strand, minimum_ratio) ==
    IF K_DP4 \notin DOMAIN variant.INFO THEN TRUE
    ELSE
    LET dp4 == variant.INFO[K_DP4].items
        count_reference == dp4[1] + dp4[2]
        count_alt == dp4[3] + dp4[4]
        low(a, b) == IF b > 0 THEN RatioBelow(a, b, minimum_ratio)
                     ELSE 0 < minimum_ratio
    IN IF is_polymorphic(variant) = FALSE
       THEN ~(\/ count_reference < minimum_depth
              \/ dp4[1] < minimum_depth_strand
              \/ dp4[2] < minimum_depth_strand
              \/ low(dp4[1], count_reference)
              \/ low(dp4[2], count_reference))
       ELSE ~(\/ count_alt < minimum_depth
              \/ dp4[3] < minimum_depth_strand
              \/ dp4[4] < minimum_depth_strand
              \/ low(dp4[3], count_alt)
              \/ low(dp4[4], count_alt))

is_valid_dp4(variant, minimum_depth, minimum_depth_strand, minimum_ratio) ==
    IF K_DP4 \notin DOMAIN variant.INFO THEN TRUE
    ELSE
    LET dp4 == variant.INFO[K_DP4].items
        ref_forward == dp4[1]
        ref_reverse == dp4[2]
        alt_forward == dp4[3]
        alt_reverse == dp4[4]
        count_reference == ref_forward + ref_reverse
        count_alt == alt_forward + alt_reverse
        forward == ref_forward + alt_forward
        reverse == ref_reverse + alt_reverse
        \* ratio_x < minimum_ratio, the ratio being 0 when its strand is empty
        fwd_ref_low == IF forward > 0
                       THEN RatioBelow(ref_forward, forward, minimum_ratio)
                       ELSE 0 < minimum_ratio
        fwd_alt_low == IF forward > 0
                       THEN RatioBelow(alt_forward, forward, minimum_ratio)
                       ELSE 0 < minimum_ratio
        rev_ref_low == IF reverse > 0
                       THEN RatioBelow(ref_reverse, reverse, minimum_ratio)
                       ELSE 0 < minimum_ratio
        rev_alt_low == IF reverse > 0
                       THEN RatioBelow(alt_reverse, reverse, minimum_ratio)
                       ELSE 0 < minimum_ratio
    IN IF is_polymorphic(variant) = FALSE
       THEN IF count_reference < minimum_depth THEN FALSE
            ELSE IF ref_forward < minimum_depth_strand THEN FALSE
            ELSE IF ref_reverse < minimum_depth_strand THEN FALSE
            ELSE IF fwd_ref_low THEN FALSE
            ELSE IF rev_ref_low THEN FALSE
            ELSE TRUE
       ELSE IF count_alt < minimum_depth THEN FALSE
            ELSE IF alt_forward < minimum_depth_strand THEN FALSE
            ELSE IF alt_reverse < minimum_depth_strand THEN FALSE
            ELSE IF fwd_alt_low THEN FALSE
            ELSE IF rev_alt_low THEN FALSE
            ELSE TRUE

-----------------------------------------------------------------------------
(* VCF_mpileup_4dot1._filter_line: the generic INFO rules *)

\* s.replace(old, new)
RECURSIVE Replace(_, _, _)
Replace(s, old, new) ==
    IF s = <<>> THEN <<>>
    ELSE IF StartsWith(s, old)
         THEN new \o Replace(From(s, Len(old)), old, new)
         ELSE <<Head(s)>> \o Replace(Tail(s), old, new)

\* s with every occurrence of the character c removed: s.replace(c, "")
Remove(s, c) == SelectSeq(s, LAMBDA x : x # c)

S_sum == <<"s", "u", "m", "(">>

S_sumlist == <<"s", "u", "m", "(", "[">>

\* a[index] for a Python list a: [exc |-> "IndexError"] when out of range
Subscript(items, index) ==
    IF index >= 0 /\ index < Len(items)
    THEN [exc |-> "", val |-> items[index + 1]]
    ELSE IF index < 0 /\ -index <= Len(items)
    THEN [exc |-> "", val |-> items[Len(items) + index + 1]]
    ELSE [exc |-> "IndexError", val |-> 0]

\* a[idx] where idx = int(...)
SubscriptAt(items, idx) ==
    IF ~idx.ok THEN [exc |-> "SyntaxError", val |-> 0]
    ELSE Subscript(items, idx.val)

\* One element of the list inside sum([...]), cut at its first "[" into
\* parts, evaluated with the single name mykey bound to info_value: "K[i]"
\* is a subscription, any other name is unbound.
ElementOf(parts, mykey, info_value) ==
    IF \/ Len(parts) # 2
       \/ Strip(parts[1]) = <<>>
       \/ parts[2] = <<>>
       \/ parts[2][Len(parts[2])] # "]"
    THEN [exc |-> "SyntaxError", val |-> 0]
    ELSE IF Strip(parts[1]) # mykey THEN [exc |-> "NameError", val |-> 0]
    ELSE IF ~info_value.isList THEN [exc |-> "TypeError", val |-> 0]
    ELSE SubscriptAt(info_value.items,
                     ParseInt(SubSeq(parts[2], 1, Len(parts[2]) - 1)))

EvalElement(e, mykey, info_value) ==
    ElementOf(Split1(Strip(e), "["), mykey, info_value)

\* h + r with the head dropped
AddRest_Last(h, r) == r

\* h + r, or the exception that r is
AddRest(h, r) ==
    IF r.exc # "" THEN r ELSE [exc |-> "", val |-> h.val + r.val]

RECURSIVE SumElements(_, _, _)

\* the head h evaluated, then the rest: the first exception wins
AddHead(h, elems, mykey, info_value) ==
    IF h.exc # "" THEN h
    ELSE AddRest(h, SumElements(Tail(elems), mykey, info_value))

\* the elements evaluated left to right and added
SumElements(elems, mykey, info_value) ==
    IF elems = <<>> THEN [exc |-> "", val |-> 0]
    ELSE AddHead(EvalElement(Head(elems), mykey, info_value),
                 elems, mykey, info_value)

\* eval(expr) for expr = "sum([" e1 "," e2 ... "])"
EvalSum(expr, mykey, info_value) ==
    IF /\ StartsWith(expr, S_sumlist)
       /\ Len(expr) >= Len(S_sumlist) + 2
       /\ SubSeq(expr, Len(expr) - 1, Len(expr)) = <<"]", ")">>
    THEN SumElements(Split(SubSeq(expr, Len(S_sumlist) + 1, Len(expr) - 2), ","),
                     mykey, info_value)
    ELSE [exc |-> "SyntaxError", val |-> 0]

\* What one rule of filter_dict["INFO"] does to a record is "True" or
\* "False" (returned by _filter_line), an exception (it leaves
\* _filter_line), or "continue" (the loop goes on to the next rule).

\* if self._filter_info_field(x, value): return False
Discards(f) ==
    IF f = "True" THEN "False"
    ELSE IF f = "False" THEN "continue"
    ELSE f

\* if self._filter_info_field(result, value): return False
\* else: return True
SumVerdict(f) ==
    IF f = "True" THEN "False"
    ELSE IF f = "False" THEN "True"
    ELSE f

\* result = eval(expr), then the test of result
SumResult(result, value) ==
    IF result.exc # "" THEN result.exc
    ELSE SumVerdict(_filter_info_field(result.val, value))

\* lcl[mykey] = vcf_line.INFO[mykey]; result = eval(expr)
SumLookup(vcf_line, expr, mykey, value) ==
    IF mykey \notin DOMAIN vcf_line.INFO THEN "KeyError"
    ELSE SumResult(EvalSum(expr, mykey, vcf_line.INFO[mykey]), value)

\* expr = key.replace("sum(", "sum([")[0:-1] + "])", given the replaced key;
\* mykey = expr[5:].split("[")[0]
SumExpr(replaced) == SubSeq(replaced, 1, Len(replaced) - 1) \o <<"]", ")">>

SumKey(expr) == Split(From(expr, 5), "[")[1]

SumBranch(vcf_line, expr, value) ==
    SumLookup(vcf_line, expr, SumKey(expr), value)

\* the element at index of a list-valued key
ElementVerdict(e, value) ==
    IF e.exc # "" THEN e.exc
    ELSE Discards(_filter_info_field(e.val, value))

\* the list-valued key tested on its first element whatever the index
ListRule_First(items, index, value) ==
    IF index > Len(items) - 1 THEN "ValueError"
    ELSE ElementVerdict(Subscript(items, 0), value)

ListRule(items, index, value) ==
    IF index > Len(items) - 1 THEN "ValueError"
    ELSE ElementVerdict(Subscript(items, index), value)

\* the try block, for the key k and index = idx; int() may have raised
TryRule(vcf_line, k, idx, value, iline) ==
    IF ~idx.ok THEN "ValueError"
    ELSE IF k \notin DOMAIN vcf_line.INFO
         THEN \* except KeyError: the message formats iline + 1
              (IF iline.none THEN "TypeError" ELSE "continue")
    ELSE IF ~vcf_line.INFO[k].isList
         THEN Discards(_filter_info_field(vcf_line.INFO[k].val, value))
    ELSE ListRule(vcf_line.INFO[k].items, idx.val, value)

\* key, index = key.split("[", 1), given the two parts
IndexedRule(vcf_line, parts, value, iline) ==
    TryRule(vcf_line, Strip(parts[1]),
            ParseInt(Strip(Remove(parts[2], "]"))), value, iline)

\* the loop body with the PV4 exemption extended to the keys "PV4[i]"
RuleStep_IndexedExempt(vcf_line, key, value, iline) ==
    IF StartsWith(key, K_PV4) /\ is_polymorphic(vcf_line) = FALSE THEN "True"
    ELSE IF StartsWith(key, S_sum)
         THEN SumBranch(vcf_line, SumExpr(Replace(key, S_sum, S_sumlist)), value)
    ELSE IF Contains(key, "[")
         THEN (IF ~Contains(key, "]") THEN "ValueError"
               ELSE IndexedRule(vcf_line, Split1(key, "["), value, iline))
    ELSE TryRule(vcf_line, key, [ok |-> TRUE, val |-> 0], value, iline)

RuleStep(vcf_line, key, value, iline) ==
    IF key = K_PV4 /\ is_polymorphic(vcf_line) = FALSE THEN "True"
    ELSE IF StartsWith(key, S_sum)
         THEN SumBranch(vcf_line, SumExpr(Replace(key, S_sum, S_sumlist)), value)
    ELSE IF Contains(key, "[")
         THEN (IF ~Contains(key, "]") THEN "ValueError"
               ELSE IndexedRule(vcf_line, Split1(key, "["), value, iline))
    ELSE TryRule(vcf_line, key, [ok |-> TRUE, val |-> 0], value, iline)

RECURSIVE InfoRules(_, _, _)

\* after the first rule has done r
RulesAfter(r, vcf_line, rules, iline) ==
    IF r = "continue" THEN InfoRules(vcf_line, Tail(rules), iline) ELSE r

\* for key, value in filter_dict["INFO"].items(): ...; return True
InfoRules(vcf_line, rules, iline) ==
    IF rules = <<>> THEN "True"
    ELSE RulesAfter(RuleStep(vcf_line, Head(rules).key, Head(rules).value, iline),
                    vcf_line, rules, iline)

\* an optional argument: <<>> is None, <<x>> is x
NoArg == <<>>

Arg(x) == <<x>>

\* _filter_line discarding also the records whose QUAL equals the threshold
_filter_line_QualNotStrict(self, vcf_line, fdarg, iline) ==
    LET fd == IF fdarg = NoArg THEN self.filter_dict ELSE fdarg[1]
    IN
    IF fd.QUAL # -Scale /\ vcf_line.QUAL.none THEN "TypeError"
    ELSE IF fd.QUAL # -Scale /\ vcf_line.QUAL.val <= fd.QUAL THEN "False"
    ELSE IF self.apply_indel_filter /\ is_indel(vcf_line) = TRUE THEN "False"
    ELSE IF /\ self.apply_dp4_filter /\ K_DP4 \in DOMAIN vcf_line.INFO
            /\ is_valid_dp4(vcf_line, self.dp4_minimum_depth,
                            self.dp4_minimum_depth_strand,
                            self.dp4_minimum_ratio) = FALSE
         THEN "False"
    ELSE IF /\ self.apply_af1_filter /\ K_AF1 \in DOMAIN vcf_line.INFO
            /\ is_valid_af1(vcf_line, self.minimum_af1) = FALSE
         THEN "False"
    ELSE InfoRules(vcf_line, fd.INFO, iline)

\* _filter_line applying the indel filter whether or not it is enabled
_filter_line_AlwaysIndel(self, vcf_line, fdarg, iline) ==
    LET fd == IF fdarg = NoArg THEN self.filter_dict ELSE fdarg[1]
    IN
    IF fd.QUAL # -Scale /\ vcf_line.QUAL.none THEN "TypeError"
    ELSE IF fd.QUAL # -Scale /\ vcf_line.QUAL.val < fd.QUAL THEN "False"
    ELSE IF is_indel(vcf_line) = TRUE THEN "False"
    ELSE IF /\ self.apply_dp4_filter /\ K_DP4 \in DOMAIN vcf_line.INFO
            /\ is_valid_dp4(vcf_line, self.dp4_minimum_depth,
                            self.dp4_minimum_depth_strand,
                            self.dp4_minimum_ratio) = FALSE
         THEN "False"
    ELSE IF /\ self.apply_af1_filter /\ K_AF1 \in DOMAIN vcf_line.INFO
            /\ is_valid_af1(vcf_line, self.minimum_af1) = FALSE
         THEN "False"
    ELSE InfoRules(vcf_line, fd.INFO, iline)

\* _filter_line with a missing DP4 or AF1 key failing the enabled filter
_filter_line_MissingFails(self, vcf_line, fdarg, iline) ==
    LET fd == IF fdarg = NoArg THEN self.filter_dict ELSE fdarg[1]
    IN
    IF fd.QUAL # -Scale /\ vcf_line.QUAL.none THEN "TypeError"
    ELSE IF fd.QUAL # -Scale /\ vcf_line.QUAL.val < fd.QUAL THEN "False"
    ELSE IF self.apply_indel_filter /\ is_indel(vcf_line) = TRUE THEN "False"
    ELSE IF /\ self.apply_dp4_filter
            /\ \/ K_DP4 \notin DOMAIN vcf_line.INFO
               \/ is_valid_dp4(vcf_line, self.dp4_minimum_depth,
                               self.dp4_minimum_depth_strand,
                               self.dp4_minimum_ratio) = FALSE
         THEN "False"
    ELSE IF /\ self.apply_af1_filter
            /\ \/ K_AF1 \notin DOMAIN vcf_line.INFO
               \/ is_valid_af1(vcf_line, self.minimum_af1) = FALSE
         THEN "False"
    ELSE InfoRules(vcf_line, fd.INFO, iline)

\* _filter_line(self, vcf_line, filter_dict=None, iline=None).
\* "False": the variant is filtered out.
_filter_line(self, vcf_line, fdarg, iline) ==
    LET fd == IF fdarg = NoArg
              THEN self.filter_dict        \* self.filter_dict.copy()
              ELSE fdarg[1]
    IN
    IF fd.QUAL # -Scale /\ vcf_line.QUAL.none THEN "TypeError"
    ELSE IF fd.QUAL # -Scale /\ vcf_line.QUAL.val < fd.QUAL THEN "False"
    ELSE IF self.apply_indel_filter /\ is_indel(vcf_line) = TRUE THEN "False"
    ELSE IF /\ self.apply_dp4_filter /\ K_DP4 \in DOMAIN vcf_line.INFO
            /\ is_valid_dp4(vcf_line, self.dp4_minimum_depth,
                            self.dp4_minimum_depth_strand,
                            self.dp4_minimum_ratio) = FALSE
         THEN "False"
    ELSE IF /\ self.apply_af1_filter /\ K_AF1 \in DOMAIN vcf_line.INFO
            /\ is_valid_af1(vcf_line, self.minimum_af1) = FALSE
         THEN "False"
    ELSE InfoRules(vcf_line, fd.INFO, iline)

\* the engine object, as the methods see it
Self ==
    [filter_dict              |-> filter_dict,
     apply_dp4_filter         |-> apply_dp4_filter,
     apply_af1_filter         |-> apply_af1_filter,
     apply_indel_filter       |-> apply_indel_filter,
     dp4_minimum_depth        |-> dp4_minimum_depth,
     dp4_minimum_depth_strand |-> dp4_minimum_depth_strand,
     dp4_minimum_ratio        |-> dp4_minimum_ratio,
     minimum_af1              |-> minimum_af1]

-----------------------------------------------------------------------------
(* Construction *)

\* VCF_mpileup_4dot1.__init__: the attributes after construction
InitEngine ==
    /\ filter_dict = [QUAL |-> -Scale, INFO |-> <<>>]
    /\ apply_dp4_filter = FALSE
    /\ apply_af1_filter = FALSE
    /\ apply_indel_filter = FALSE
    /\ dp4_minimum_depth = N(4)
    /\ dp4_minimum_depth_strand = N(2)
    /\ dp4_minimum_ratio = 75
    /\ minimum_af1 = 95

\* the keys of VCF_freebayes._filters_params
ParamNames == {"freebayes_score", "frequency", "min_depth", "forward_depth",
               "reverse_depth", "strand_ratio"}

\* the dict __init__ and the deleter of filters_params build
ZeroParams == [k \in ParamNames |-> 0]

\* VCF_freebayes._check_if_joint, given self.samples: <<>> when reading the
\* samples of the header raises, <<n>> for n sample names
_check_if_joint(samples) ==
    IF samples = <<>> THEN FALSE
    ELSE IF samples[1] > 1 THEN TRUE
    ELSE FALSE

\* VCF_freebayes.__init__: the attributes after construction
VCF_freebayes_init(samples) ==
    /\ _filters_params = ZeroParams
    /\ _is_joint = _check_if_joint(samples)

\* the freebayes engine where it plays no part
IdleFreebayes == VCF_freebayes_init(<<>>)

NoCall == [fn |-> "none"]

\* no filter_vcf call has been made
NoFrame == [state |-> "none"]

Variant(qual, ref, alt, info) ==
    [QUAL |-> qual, REF |-> ref, ALT |-> alt, INFO |-> info]

NoInfo == [k \in {} |-> Scalar(0)]

-----------------------------------------------------------------------------
(* Direct calls of the pure methods: specification SpecFn *)

MaxClauses == 3

Ops == {<<"<">>, <<"<", "=">>, <<">">>, <<">", "=">>}

\* thresholds of single clauses: -1, 0, 0.5, 30, 60
ThresholdNums == {-N(1), 0, 50, N(30), N(60)}

EvalValues == {-N(2), -N(1), 0, 49, 50, 51, N(30) - 1, N(30), N(30) + 1,
               N(45), N(60), N(61)}

Clause(op, t) == op \o NumStr(t)

SingleClauses == {Clause(op, t) : op \in Ops, t \in ThresholdNums}

ChainClauses == {Clause(<<">">>, N(30)), Clause(<<"<">>, N(60)),
                 Clause(<<"<", "=">>, N(30)), Clause(<<">", "=">>, N(60))}

Conns == {<<"&">>, <<"|">>, <<" ", "&", " ">>}

\* the expressions of exactly n clauses
RECURSIVE Chains(_)
Chains(n) ==
    IF n = 1 THEN ChainClauses
    ELSE {x \o c \o y : x \in Chains(n - 1), c \in Conns, y \in ChainClauses}

Thresholds == SingleClauses \cup UNION {Chains(n) : n \in 2..MaxClauses}

\* ALT columns: a missing allele (None), ".", " . ", one allele, and a
\* value holding a comma
AltNone == <<None>>

AltDot == <<<<".">>>>

AltDotBlank == <<<<" ", ".", " ">>>>

AltT == <<<<"T">>>>

AltComma == <<<<"A", ",", "T">>>>

RefA == <<"A">>

RefAT == <<"A", "T">>

RefComma == <<"A", ",", "A", "T">>

RefLeadingComma == <<",", "A">>

\* DP4 counts tried for each of the four entries
MaxDp4Counts == 4

Dp4CountList == <<0, 2, 3, 10, 1, 19>>

Dp4Counts == {N(Dp4CountList[i]) : i \in 1..MaxDp4Counts}

Dp4Variants ==
    {Variant(Num(N(60)), RefA, alt,
             K_DP4 :> List(<<a, b, c, d>>)) :
        alt \in {AltNone, AltDot, AltT},
        a \in Dp4Counts, b \in Dp4Counts, c \in Dp4Counts, d \in Dp4Counts}
    \cup
    {Variant(Num(N(60)), RefA, alt, K_DP4 :> List(<<N(10), N(10), N(1), N(1)>>)) :
        alt \in {AltNone, AltT}}
    \cup
    {Variant(Num(N(60)), RefA, alt, K_DP4 :> List(<<N(19), N(19), N(1), N(1)>>)) :
        alt \in {AltNone, AltT}}
    \cup
    {Variant(Num(N(60)), RefA, alt, NoInfo) : alt \in {AltNone, AltT}}

Dp4Params ==
    {[minimum_depth |-> N(4), minimum_depth_strand |-> N(2), minimum_ratio |-> r] :
        r \in {75, 95}}
    \cup {[minimum_depth |-> N(5), minimum_depth_strand |-> N(3), minimum_ratio |-> 0]}

\* minimum_af1 is tried at 0.95 and 0.75, where 1 - minimum_af1 computed in
\* binary floating point orders the values below as the decimals do
Af1Values == {0, 4, 5, 6, 24, 25, 26, 50, 74, 75, 76, 94, 95, 96, Scale}

Af1Variants ==
    {Variant(Num(N(60)), RefA, alt, K_AF1 :> Scalar(a)) :
        alt \in {AltNone, AltDot, AltDotBlank, AltT}, a \in Af1Values}
    \cup {Variant(Num(N(60)), RefA, alt, NoInfo) : alt \in {AltNone, AltT}}

IndelVariants ==
    {Variant(Num(N(60)), ref, alt, info) :
        ref \in {RefA, RefAT, RefComma, RefLeadingComma},
        alt \in {AltNone, AltDot, AltT, AltComma},
        info \in {NoInfo, K_INDEL :> Scalar(1), K_INDEL :> Scalar(0),
                  K_DP :> Scalar(N(40))}}

Bool(b) == IF b THEN "True" ELSE "False"

S_freeBayes == <<"f", "r", "e", "e", "B", "a", "y", "e", "s">>

S_4dot1 == <<"4", ".", "1">>

S_4dot2 == <<"4", ".", "2">>

\* VCF.__init__ with truthy values of force accepted as True
VCF_init_Truthy(version, source, force) ==
    IF version = S_4dot1 THEN "VCF_mpileup_4dot1"
    ELSE IF version = S_4dot2 /\ StartsWith(source, S_freeBayes)
         THEN "VCF_freebayes"
    ELSE IF force \in {"True", "1"} THEN "VCFBase"
    ELSE "ValueError"

\* VCF.__init__(filename, force), given vcf.version and vcf.source: the
\* class of self.vcf, or the exception raised.  force is "True", "False" or
\* "1" (the integer 1, which is not the object True).
VCF_init(version, source, force) ==
    IF version = S_4dot1 THEN "VCF_mpileup_4dot1"
    ELSE IF version = S_4dot2 /\ StartsWith(source, S_freeBayes)
         THEN "VCF_freebayes"
    ELSE IF force = "True" THEN "VCFBase"
    ELSE "ValueError"

\* the fileformat versions and the ##source values of the headers tried
HeaderVersions == {S_4dot1, S_4dot2, <<"4", ".", "0">>, <<"4", ".", "3">>}

HeaderSources ==
    {S_freeBayes, S_freeBayes \o <<" ", "v", "1">>,
     <<"f", "r", "e", "e", "b", "a", "y", "e", "s">>,
     <<"x">> \o S_freeBayes, <<"s", "a", "m", "t", "o", "o", "l", "s">>, <<>>}

ForceValues == {"True", "False", "1"}

InitFn ==
    /\ InitEngine
    /\ IdleFreebayes
    /\ file = <<>> /\ pos = 0 /\ pc = "idle" /\ fv = NoFrame
    /\ ret = "pending"
    /\ \/ call \in {[fn |-> "_filter_info_field", info_value |-> v, threshold |-> t] :
                      v \in EvalValues, t \in Thresholds}
       \/ call \in {[fn |-> "is_valid_dp4", variant |-> v, params |-> q] :
                      v \in Dp4Variants, q \in Dp4Params}
       \/ call \in {[fn |-> "is_valid_af1", variant |-> v, minimum_af1 |-> m] :
                      v \in Af1Variants, m \in {75, 95}}
       \/ call \in {[fn |-> "is_indel", variant |-> v] : v \in IndelVariants}
       \/ call \in {[fn |-> "is_polymorphic", variant |-> v] : v \in IndelVariants}
       \/ call \in {[fn |-> "VCF", version |-> v, source |-> src, force |-> f] :
                      v \in HeaderVersions, src \in HeaderSources,
                      f \in ForceValues}

Call_filter_info_field ==
    /\ call.fn = "_filter_info_field" /\ ret = "pending"
    /\ ret' = _filter_info_field(call.info_value, call.threshold)
    /\ UNCHANGED <<call, cfgVars, fbVars, passVars>>

Call_is_valid_dp4 ==
    /\ call.fn = "is_valid_dp4" /\ ret = "pending"
    /\ ret' = Bool(is_valid_dp4(call.variant, call.params.minimum_depth,
                                call.params.minimum_depth_strand,
                                call.params.minimum_ratio))
    /\ UNCHANGED <<call, cfgVars, fbVars, passVars>>

Call_is_valid_af1 ==
    /\ call.fn = "is_valid_af1" /\ ret = "pending"
    /\ ret' = Bool(is_valid_af1(call.variant, call.minimum_af1))
    /\ UNCHANGED <<call, cfgVars, fbVars, passVars>>

Call_is_indel ==
    /\ call.fn = "is_indel" /\ ret = "pending"
    /\ ret' = Bool(is_indel(call.variant))
    /\ UNCHANGED <<call, cfgVars, fbVars, passVars>>

Call_is_polymorphic ==
    /\ call.fn = "is_polymorphic" /\ ret = "pending"
    /\ ret' = Bool(is_polymorphic(call.variant))
    /\ UNCHANGED <<call, cfgVars, fbVars, passVars>>

\* VCF(filename, force=...)
Call_VCF ==
    /\ call.fn = "VCF" /\ ret = "pending"
    /\ ret' = VCF_init(call.version, call.source, call.force)
    /\ UNCHANGED <<call, cfgVars, fbVars, passVars>>

NextFn ==
    \/ Call_VCF
    \/ Call_filter_info_field
    \/ Call_is_valid_dp4
    \/ Call_is_valid_af1
    \/ Call_is_indel
    \/ Call_is_polymorphic

SpecFn == InitFn /\ [][NextFn]_vars

-----------------------------------------------------------------------------
(* The caller's assignments to the engine's attributes *)

MaxRules == 2

\* d[key] = value on the insertion-ordered dict d: a present key keeps its
\* place, a new key goes last
PutRule(rules, key, value) ==
    IF \E i \in 1..Len(rules) : rules[i].key = key
    THEN [i \in 1..Len(rules) |->
            IF rules[i].key = key THEN [key |-> key, value |-> value]
            ELSE rules[i]]
    ELSE Append(rules, [key |-> key, value |-> value])

\* an assignment is made between calls; what the last call returned is no
\* longer looked at
Forget ==
    /\ pc # "scanning"
    /\ call' = NoCall /\ ret' = "pending"
    /\ pc' = "idle" /\ fv' = NoFrame
    /\ UNCHANGED <<file, pos, fbVars>>

\* v.vcf.filter_dict['QUAL'] = q
SetQUAL(q) ==
    /\ Forget
    /\ filter_dict' = [filter_dict EXCEPT !.QUAL = q]
    /\ UNCHANGED <<apply_dp4_filter, apply_af1_filter, apply_indel_filter,
                   dp4_minimum_depth, dp4_minimum_depth_strand,
                   dp4_minimum_ratio, minimum_af1>>

\* v.vcf.filter_dict['INFO'][key] = value
SetInfoRule(key, value) ==
    /\ Forget
    /\ \/ Len(filter_dict.INFO) < MaxRules
       \/ \E i \in 1..Len(filter_dict.INFO) : filter_dict.INFO[i].key = key
    /\ filter_dict' = [filter_dict EXCEPT !.INFO = PutRule(@, key, value)]
    /\ UNCHANGED <<apply_dp4_filter, apply_af1_filter, apply_indel_filter,
                   dp4_minimum_depth, dp4_minimum_depth_strand,
                   dp4_minimum_ratio, minimum_af1>>

\* v.vcf.apply_indel_filter = b
SetApplyIndel(b) ==
    /\ Forget
    /\ apply_indel_filter' = b
    /\ UNCHANGED <<filter_dict, apply_dp4_filter, apply_af1_filter,
                   dp4_minimum_depth, dp4_minimum_depth_strand,
                   dp4_minimum_ratio, minimum_af1>>

\* v.vcf.apply_dp4_filter = b
SetApplyDp4(b) ==
    /\ Forget
    /\ apply_dp4_filter' = b
    /\ UNCHANGED <<filter_dict, apply_af1_filter, apply_indel_filter,
                   dp4_minimum_depth, dp4_minimum_depth_strand,
                   dp4_minimum_ratio, minimum_af1>>

\* v.vcf.apply_af1_filter = b
SetApplyAf1(b) ==
    /\ Forget
    /\ apply_af1_filter' = b
    /\ UNCHANGED <<filter_dict, apply_dp4_filter, apply_indel_filter,
                   dp4_minimum_depth, dp4_minimum_depth_strand,
                   dp4_minimum_ratio, minimum_af1>>

\* v.vcf.dp4_minimum_ratio = r
SetDp4MinimumRatio(r) ==
    /\ Forget
    /\ dp4_minimum_ratio' = r
    /\ UNCHANGED <<filter_dict, apply_dp4_filter, apply_af1_filter,
                   apply_indel_filter, dp4_minimum_depth,
                   dp4_minimum_depth_strand, minimum_af1>>

-----------------------------------------------------------------------------
(* Direct calls of _filter_line: specification SpecLine *)

Rule(key, value) == [key |-> key, value |-> value]

T_lt30 == <<"<", "3", "0">>

T_lt4 == <<"<", "4">>

T_lt2 == <<"<", "2">>

T_lt005 == <<"<", "0", ".", "0", "5">>

R_DP == Rule(K_DP, T_lt30)

R_MQ == Rule(K_MQ, T_lt30)

R_PV4 == Rule(K_PV4, T_lt005)

R_DP4_2 == Rule(K_DP4 \o <<"[", "2", "]">>, T_lt4)

R_DP4_9 == Rule(K_DP4 \o <<"[", "9", "]">>, T_lt4)

R_sum == Rule(S_sum \o K_DP4 \o <<"[", "2", "]", ",">> \o K_DP4
                 \o <<"[", "3", "]", ")">>, T_lt2)

\* the two range examples: DP<30|>60 and DP>30&<60
R_DP_outside == Rule(K_DP, <<"<", "3", "0", "|", ">", "6", "0">>)

R_DP_inside == Rule(K_DP, <<">", "3", "0", "&", "<", "6", "0">>)

\* a threshold with no comparator, and a key whose bracket is not closed
R_tilde == Rule(K_DP, <<"~", "3", "0">>)

R_unclosed == Rule(K_DP4 \o <<"[", "2">>, T_lt4)

\* keys wrapped in a function other than sum: "min(DP)", "max(DP4[0],DP4[2])"
R_min == Rule(<<"m", "i", "n", "(">> \o K_DP \o <<")">>, T_lt30)

R_max == Rule(<<"m", "a", "x", "(">> \o K_DP4 \o <<"[", "0", "]", ",">> \o K_DP4
                 \o <<"[", "2", "]", ")">>, T_lt4)

LineRules == {R_DP, R_MQ, R_PV4, R_DP4_2, R_DP4_9, R_sum,
              R_DP_outside, R_DP_inside}

\* QUAL thresholds the caller sets: 50, and back to the unset -1
QualThresholds == {-Scale, N(50)}

Info3(k1, v1, k2, v2, k3, v3) == (k1 :> v1) @@ (k2 :> v2) @@ (k3 :> v3)

PV4ok == List(<<Scale, Scale, Scale, Scale>>)

\* a SNP that passes every built-in filter and every rule of LineRules
V_good ==
    Variant(Num(N(60)), RefA, AltT,
            Info3(K_DP, Scalar(N(40)), K_DP4, List(<<0, 0, N(10), N(10)>>),
                  K_AF1, Scalar(Scale))
            @@ (K_MQ :> Scalar(N(40))) @@ (K_PV4 :> PV4ok))

\* as V_good, with a depth DP = 10 below 30
V_lowDP == [V_good EXCEPT !.INFO[K_DP] = Scalar(N(10))]

\* as V_good, with QUAL = 20
V_lowQUAL == [V_good EXCEPT !.QUAL = Num(N(20))]

\* as V_good, with REF = "A,AT"
V_refComma == [V_good EXCEPT !.REF = RefComma]

\* as V_good, with ALT[0] = "A,T"
V_altComma == [V_good EXCEPT !.ALT = AltComma]

\* as V_good, with the INDEL flag
V_indel == [V_good EXCEPT !.INFO = @ @@ (K_INDEL :> Scalar(1))]

\* a SNP with no INFO at all
V_noInfo == Variant(Num(N(60)), RefA, AltT, NoInfo)

\* a SNP with DP only, below 30
V_onlyDP == Variant(Num(N(60)), RefA, AltT, K_DP :> Scalar(N(10)))

\* a reference-confirming record (ALT missing) with DP = 10
V_ref ==
    Variant(Num(N(60)), RefA, AltNone,
            Info3(K_DP, Scalar(N(10)), K_DP4, List(<<N(10), N(10), 0, 0>>),
                  K_AF1, Scalar(0))
            @@ (K_PV4 :> PV4ok))

\* a SNP that fails the DP4 and the AF1 filters
V_weak ==
    Variant(Num(N(60)), RefA, AltT,
            Info3(K_DP, Scalar(N(40)), K_DP4, List(<<N(10), N(10), N(1), N(1)>>),
                  K_AF1, Scalar(50)))

\* as V_good, with a depth DP = 70 above 60
V_highDP == [V_good EXCEPT !.INFO[K_DP] = Scalar(N(70))]

LineRecords == {V_good, V_lowDP, V_highDP, V_lowQUAL, V_refComma, V_altComma,
                V_indel, V_noInfo, V_onlyDP, V_ref, V_weak}

InitLine ==
    /\ InitEngine
    /\ IdleFreebayes
    /\ call = NoCall /\ ret = "pending"
    /\ file = <<>> /\ pos = 0 /\ pc = "idle" /\ fv = NoFrame

\* self._filter_line(vcf_line) or self._filter_line(vcf_line, iline=i)
Call_filter_line(vcf_line, iline) ==
    /\ call = NoCall
    /\ call' = [fn |-> "_filter_line", vcf_line |-> vcf_line, iline |-> iline]
    /\ ret' = _filter_line(Self, vcf_line, NoArg, iline)
    /\ UNCHANGED <<cfgVars, fbVars, passVars>>

NextLine ==
    \/ \E q \in QualThresholds : SetQUAL(q)
    \/ \E r \in LineRules : SetInfoRule(r.key, r.value)
    \/ \E b \in BOOLEAN : SetApplyIndel(b)
    \/ \E b \in BOOLEAN : SetApplyDp4(b)
    \/ \E b \in BOOLEAN : SetApplyAf1(b)
    \/ \E r \in {75, 95} : SetDp4MinimumRatio(r)
    \/ \E v \in LineRecords, i \in {NoneNum, Num(0)} : Call_filter_line(v, i)

SpecLine == InitLine /\ [][NextLine]_vars

-----------------------------------------------------------------------------
(* Direct calls of _filter_line on the value each rule tests:
   specification SpecValue *)

\* "DP4" with no index, "DP[2]" with an index on a scalar, "PV4[0]"
R_DP4 == Rule(K_DP4, T_lt4)

R_DP_2 == Rule(K_DP \o <<"[", "2", "]">>, T_lt30)

R_PV4_0 == Rule(K_PV4 \o <<"[", "0", "]">>, T_lt005)

ValueRules == {R_DP, R_DP_2, R_DP4, R_DP4_2, R_PV4, R_PV4_0, R_sum}

\* as V_weak, with DP4 = 10,10,1,0: the last two add up to 1
V_sum1 == [V_weak EXCEPT !.INFO[K_DP4] = List(<<N(10), N(10), N(1), 0>>)]

\* as V_good and as V_ref, with PV4 = 0.01,1,1,1
V_pv4 == [V_good EXCEPT !.INFO[K_PV4] = List(<<1, Scale, Scale, Scale>>)]

V_refPV4 == [V_ref EXCEPT !.INFO[K_PV4] = List(<<1, Scale, Scale, Scale>>)]

\* as V_good, with QUAL = 50 and with QUAL = -2
V_qual50 == [V_good EXCEPT !.QUAL = Num(N(50))]

V_negQUAL == [V_good EXCEPT !.QUAL = Num(-N(2))]

ValueRecords == {V_good, V_lowDP, V_lowQUAL, V_weak, V_sum1, V_pv4, V_ref,
                 V_refPV4, V_qual50, V_negQUAL}

NextValue ==
    \/ \E q \in QualThresholds : SetQUAL(q)
    \/ \E r \in ValueRules : SetInfoRule(r.key, r.value)
    \/ \E v \in ValueRecords : Call_filter_line(v, Num(0))

SpecValue == InitLine /\ [][NextValue]_vars

-----------------------------------------------------------------------------
(* filter_vcf, one record at a time: specification Spec *)

MaxRecords == 2

\* len(self): the number of records of the file
VCFBase_len == Len(file)

\* self.rewind(): the reader is back at the first record
VCFBase_rewind == pos' = 0

\* what a completed pass left: its arguments, its result and its outputs
Summary(f) ==
    [output_filtered |-> f.output_filtered, result |-> f.result,
     out |-> f.out, outf |-> f.outf]

\* filter_vcf up to the loop: the locals, the two files opened, the reader
\* rewound.  prev remembers the pass that completed just before this one.
FilterVcfFrame(output_filtered) ==
    [filter_dict     |-> filter_dict,       \* self.filter_dict.copy()
     output_filtered |-> output_filtered,
     filtered        |-> 0,
     unfiltered      |-> 0,
     N               |-> VCFBase_len,
     fp              |-> "open",
     fpf             |-> IF output_filtered THEN "open" ELSE "unopened",
     out             |-> <<>>,              \* the records written to output
     outf            |-> <<>>,              \* ... and to output_filtered
     result          |-> <<>>,
     exc             |-> "",
     prev            |-> IF pc = "done" THEN <<Summary(fv)>> ELSE <<>>]

\* filter_vcf that does not rewind the reader before its loop
FilterVcfStart_NoRewind(output_filtered) ==
    /\ pc \in {"idle", "done", "raised"}
    /\ fv' = FilterVcfFrame(output_filtered)
    /\ pc' = "scanning"
    /\ UNCHANGED <<pos, file, cfgVars, fbVars, callVars>>

\* self.filter_vcf(output) or self.filter_vcf(output, output_filtered=...)
FilterVcfStart(output_filtered) ==
    /\ pc \in {"idle", "done", "raised"}
    /\ fv' = FilterVcfFrame(output_filtered)
    /\ VCFBase_rewind
    /\ pc' = "scanning"
    /\ UNCHANGED <<file, cfgVars, fbVars, callVars>>

\* AfterLine counting the discarded records too
AfterLine_CountAll(f, variant, r) ==
    IF r = "True"
    THEN [f EXCEPT !.out = Append(@, variant), !.unfiltered = @ + 1]
    ELSE IF r = "False"
    THEN (IF f.output_filtered
          THEN [f EXCEPT !.outf = Append(@, variant), !.unfiltered = @ + 1]
          ELSE [f EXCEPT !.unfiltered = @ + 1])
    ELSE [f EXCEPT !.exc = r, !.fp = "closed"]

\* AfterLine writing the kept records to the second output too
AfterLine_BothOutputs(f, variant, r) ==
    IF r = "True"
    THEN (IF f.output_filtered
          THEN [f EXCEPT !.out = Append(@, variant), !.unfiltered = @ + 1,
                         !.outf = Append(@, variant)]
          ELSE [f EXCEPT !.out = Append(@, variant), !.unfiltered = @ + 1])
    ELSE IF r = "False"
    THEN (IF f.output_filtered THEN [f EXCEPT !.outf = Append(@, variant)]
          ELSE f)
    ELSE [f EXCEPT !.exc = r, !.fp = "closed"]

\* the frame after _filter_line has returned or raised r for variant
AfterLine(f, variant, r) ==
    IF r = "True"
    THEN [f EXCEPT !.out = Append(@, variant), !.unfiltered = @ + 1]
    ELSE IF r = "False"
    THEN (IF f.output_filtered THEN [f EXCEPT !.outf = Append(@, variant)]
          ELSE f)
    ELSE \* the exception leaves the with block, which closes fp
         [f EXCEPT !.exc = r, !.fp = "closed"]

\* a turn of the loop that takes the first rule out of self.filter_dict
FilterVcfStep_DropsRule ==
    /\ pc = "scanning"
    /\ pos < Len(file)
    /\ fv' = AfterLine(fv, file[pos + 1],
                       _filter_line(Self, file[pos + 1], Arg(fv.filter_dict),
                                    Num(pos)))
    /\ pos' = pos + 1
    /\ pc' = IF fv'.exc = "" THEN "scanning" ELSE "raised"
    /\ filter_dict' = [filter_dict EXCEPT
                          !.INFO = IF @ = <<>> THEN @ ELSE Tail(@)]
    /\ UNCHANGED <<file, apply_dp4_filter, apply_af1_filter,
                   apply_indel_filter, dp4_minimum_depth,
                   dp4_minimum_depth_strand, dp4_minimum_ratio, minimum_af1,
                   fbVars, callVars>>

\* one turn of "for iline, variant in enumerate(self)": iline = pos
FilterVcfStep ==
    /\ pc = "scanning"
    /\ pos < Len(file)
    /\ fv' = AfterLine(fv, file[pos + 1],
                       _filter_line(Self, file[pos + 1], Arg(fv.filter_dict),
                                    Num(pos)))
    /\ pos' = pos + 1
    /\ pc' = IF fv'.exc = "" THEN "scanning" ELSE "raised"
    /\ UNCHANGED <<file, cfgVars, fbVars, callVars>>

\* the loop is over: the files are closed and the counts returned
FilterVcfReturn ==
    /\ pc = "scanning"
    /\ pos = Len(file)
    /\ fv' = [fv EXCEPT
                !.fpf = IF fv.output_filtered THEN "closed" ELSE @,
                !.fp = "closed",
                !.filtered = fv.N - fv.unfiltered,
                !.result = <<[N |-> fv.N,
                              filtered |-> fv.N - fv.unfiltered,
                              unfiltered |-> fv.unfiltered]>>]
    /\ pc' = "done"
    /\ UNCHANGED <<file, pos, cfgVars, fbVars, callVars>>

\* VCF.hist_qual: the reader is rewound and read to its end
HistQual ==
    /\ pc # "scanning"
    /\ pos' = Len(file)
    /\ UNCHANGED <<file, pc, fv, cfgVars, fbVars, callVars>>

\* a record with a missing QUAL, a comma in ALT[0] and the INDEL flag
V_odd ==
    Variant(NoneNum, RefA, AltComma,
            (K_INDEL :> Scalar(1)) @@ (K_DP :> Scalar(N(40))))

\* a reference-confirming record with REF = "A,AT" and no INFO
V_bare == Variant(Num(N(60)), RefComma, AltNone, NoInfo)

PassRecords == {V_good, V_lowDP, V_odd, V_bare}

PassRules == {R_DP, R_sum, R_DP4_9, R_tilde, R_unclosed, R_min, R_max}

RECURSIVE FilesOfLen(_)
FilesOfLen(n) ==
    IF n = 0 THEN {<<>>}
    ELSE {Append(f, v) : f \in FilesOfLen(n - 1), v \in PassRecords}

Files == UNION {FilesOfLen(n) : n \in 0..MaxRecords}

Init ==
    /\ InitEngine
    /\ IdleFreebayes
    /\ call = NoCall /\ ret = "pending"
    /\ file \in Files
    /\ pos = 0
    /\ pc = "idle"
    /\ fv = NoFrame

Next ==
    \/ \E q \in QualThresholds : SetQUAL(q)
    \/ \E r \in PassRules : SetInfoRule(r.key, r.value)
    \/ \E b \in BOOLEAN : SetApplyIndel(b)
    \/ \E o \in BOOLEAN : FilterVcfStart(o)
    \/ FilterVcfStep
    \/ FilterVcfReturn
    \/ HistQual

Spec == Init /\ [][Next]_vars

-----------------------------------------------------------------------------
(* BUSCO.save_core_genomes, one record at a time: specification SpecBusco.
   file is the table self.df, fv the frame of the call. *)

MaxRows == 3

\* the gene IDs of the core genome, ordered as their numbers
GeneIDs == {1, 2, 3}

\* the contigs of the FastA file: names and sequences
ContigNames == {"ctg1", "ctg2"}

ContigSequence(name) ==
    IF name = "ctg1" THEN <<"A", "C", "G", "T", "A", "C">>
    ELSE <<"G", "G", "T", "T", "A", "A">>

\* a row of the full table; a Missing row has no score and no location (NaN)
MissingRow(id) ==
    [ID |-> id, Status |-> "Missing", Score |-> <<>>,
     Sequence |-> <<>>, GeneStart |-> <<>>, GeneEnd |-> <<>>]

FoundRow(id, status, score, seqname, start, end) ==
    [ID |-> id, Status |-> status, Score |-> <<score>>,
     Sequence |-> <<seqname>>, GeneStart |-> <<start>>, GeneEnd |-> <<end>>]

TableRows ==
    {MissingRow(id) : id \in GeneIDs}
    \cup {FoundRow(id, "Complete", 90, "ctg1", 0, 4) : id \in GeneIDs}
    \cup {FoundRow(id, "Duplicated", 50, "ctg2", 2, 5) : id \in GeneIDs}
    \cup {FoundRow(id, "Duplicated", 70, "ctg1", 1, 3) : id \in GeneIDs}

RECURSIVE TablesOfLen(_)
TablesOfLen(n) ==
    IF n = 0 THEN {<<>>}
    ELSE {Append(t, r) : t \in TablesOfLen(n - 1), r \in TableRows}

\* a gene reported Missing has that single row
WellFormedTable(t) ==
    \A i, j \in 1..Len(t) :
        (i # j /\ t[i].Status = "Missing") => t[i].ID # t[j].ID

Tables ==
    {t \in UNION {TablesOfLen(n) : n \in 0..MaxRows} : WellFormedTable(t)}

\* fillna(0) on the Score column
ScoreOrZero(row) == IF row.Score = <<>> THEN 0 ELSE row.Score[1]

\* groupby("ID")["Score"].nlargest(1): the first row of best score for id
BestRow(df, id) ==
    CHOOSE i \in 1..Len(df) :
        /\ df[i].ID = id
        /\ \A j \in 1..Len(df) :
              df[j].ID = id =>
                 \/ ScoreOrZero(df[j]) < ScoreOrZero(df[i])
                 \/ ScoreOrZero(df[j]) = ScoreOrZero(df[i]) /\ i <= j

\* the groups come in the order of their keys
RECURSIVE BestRows(_, _)
BestRows(df, ids) ==
    IF ids = {} THEN <<>>
    ELSE <<BestRow(df, CHOOSE m \in ids : \A k \in ids : m <= k)>>
         \o BestRows(df, ids \ {CHOOSE m \in ids : \A k \in ids : m <= k})

\* subdf = self.df.loc[indices]
Subdf(df) ==
    [k \in 1..Len(BestRows(df, {df[i].ID : i \in 1..Len(df)})) |->
        df[BestRows(df, {df[i].ID : i \in 1..Len(df)})[k]]]

\* "N" * n
Repeat(c, n) == [i \in 1..n |-> c]

\* s[start:end] for 0 <= start, 0 <= end
Slice(s, start, end) ==
    SubSeq(s, start + 1, IF end < Len(s) THEN end ELSE Len(s))

\* the entry written by
\* fout.write(f">{ID}\t{type_}:{seqname}:{start}:{end}:{end-start}\n{data}\n")
FastaEntry(id, type_, seqname, start, end, data) ==
    [ID |-> id, type_ |-> type_, seqname |-> seqname, start |-> start,
     end |-> end, length |-> end - start, data |-> data]

\* the frame of save_core_genomes before the loop: ID, seqname, start and
\* end are local names not yet bound
SaveCoreFrame ==
    [fn      |-> "save_core_genomes",
     subdf   |-> Subdf(file),
     bound   |-> FALSE,
     ID      |-> 0, seqname |-> "", start |-> 0, end |-> 0,
     out     |-> <<>>,
     exc     |-> ""]

\* b.save_core_genomes(contig_file, output_fasta_file), up to the loop
SaveCoreStart ==
    /\ pc = "idle"
    /\ fv' = SaveCoreFrame
    /\ pos' = 0
    /\ pc' = "writing"
    /\ UNCHANGED <<file, cfgVars, fbVars, callVars>>

\* the Missing branch writing its entry from the names bound so far
MissingEntry(f, record) ==
    IF ~f.bound THEN [f EXCEPT !.exc = "UnboundLocalError"]
    ELSE [f EXCEPT !.out = Append(@, FastaEntry(f.ID, record.Status, f.seqname,
                                                f.start, f.end,
                                                Repeat("N", 100)))]

\* the other branch: the names are bound from the record, the gene is cut
\* out of its contig
FoundEntry(f, record) ==
    IF record.Sequence[1] \notin ContigNames
    THEN [f EXCEPT !.exc = "ValueError"]       \* f.names.index(seqname)
    ELSE [f EXCEPT
            !.bound = TRUE,
            !.start = record.GeneStart[1], !.ID = record.ID,
            !.end = record.GeneEnd[1], !.seqname = record.Sequence[1],
            !.out = Append(@, FastaEntry(record.ID, record.Status,
                                         record.Sequence[1],
                                         record.GeneStart[1], record.GeneEnd[1],
                                         Slice(ContigSequence(record.Sequence[1]),
                                               record.GeneStart[1],
                                               record.GeneEnd[1])))]

\* one turn of "for record in subdf.to_dict('records')"
SaveCoreStep ==
    /\ pc = "writing"
    /\ pos < Len(fv.subdf)
    /\ fv' = IF fv.subdf[pos + 1].Status = "Missing"
             THEN MissingEntry(fv, fv.subdf[pos + 1])
             ELSE FoundEntry(fv, fv.subdf[pos + 1])
    /\ pos' = pos + 1
    /\ pc' = IF fv'.exc = "" THEN "writing" ELSE "raised"
    /\ UNCHANGED <<file, cfgVars, fbVars, callVars>>

\* the loop is over and the with block closes the file
SaveCoreReturn ==
    /\ pc = "writing"
    /\ pos = Len(fv.subdf)
    /\ pc' = "done"
    /\ UNCHANGED <<file, pos, fv, cfgVars, fbVars, callVars>>

InitBusco ==
    /\ InitEngine
    /\ IdleFreebayes
    /\ call = NoCall /\ ret = "pending"
    /\ file \in Tables
    /\ pos = 0
    /\ pc = "idle"
    /\ fv = NoFrame

NextBusco ==
    \/ SaveCoreStart
    \/ SaveCoreStep
    \/ SaveCoreReturn

SpecBusco == InitBusco /\ [][NextBusco]_vars

-----------------------------------------------------------------------------
(* TRF.scandata, one line at a time: specification SpecTrf.
   file is the sequence of the lines of self.filename, pos the number of
   lines fin has read, fv the frame of the call. *)

MaxLines == 3

\* the number of fields of a data line
NFields == 15

IsWhite(c) == c \in {" ", "\t", "\n"}

\* the field cur closed, if it holds anything
Closed(cur) == IF cur = <<>> THEN <<>> ELSE <<cur>>

\* s.split(): the runs of non-blank characters of s
RECURSIVE FieldsFrom(_, _)
FieldsFrom(s, cur) ==
    IF s = <<>> THEN Closed(cur)
    ELSE IF IsWhite(Head(s)) THEN Closed(cur) \o FieldsFrom(Tail(s), <<>>)
    ELSE FieldsFrom(Tail(s), Append(cur, Head(s)))

SplitWhite(s) == FieldsFrom(s, <<>>)

S_Sequence == <<"S", "e", "q", "u", "e", "n", "c", "e", ":">>

\* the characters of a word given as a string of the pools below
Chars(w) ==
    IF w = "chr1" THEN <<"c", "h", "r", "1">>
    ELSE IF w = "chr2" THEN <<"c", "h", "r", "2">>
    ELSE IF w = "Parameters:" THEN <<"P", "a", "r", "a", "m", "e", "t", "e", "r", "s", ":">>
    ELSE IF w = "Tandem" THEN <<"T", "a", "n", "d", "e", "m">>
    ELSE IF w = "Repeats" THEN <<"R", "e", "p", "e", "a", "t", "s">>
    ELSE IF w = "Sequence:" THEN S_Sequence
    ELSE IF w = "1.43" THEN <<"1", ".", "4", "3">>
    ELSE IF w = "7.5" THEN <<"7", ".", "5">>
    ELSE IF w = "GT" THEN <<"G", "T">>
    ELSE IF w = "GTGT" THEN <<"G", "T", "G", "T">>
    ELSE IF w = "10" THEN <<"1", "0">>
    ELSE IF w = "24" THEN <<"2", "4">>
    ELSE IF w = "50" THEN <<"5", "0">>
    ELSE IF w = "95" THEN <<"9", "5">>
    ELSE <<w>>

\* a line of the file: the words separated by one blank, then the newline
RECURSIVE Joined(_)
Joined(words) ==
    IF words = <<>> THEN <<>>
    ELSE IF Len(words) = 1 THEN Chars(words[1])
    ELSE Chars(words[1]) \o <<" ">> \o Joined(Tail(words))

Line(words) == Joined(words) \o <<"\n">>

\* start end period_size CNV size_consensus percent_matches percent_indels
\* score A C G T entropy seq1 seq2
RowWordsA == <<"1", "10", "2", "7.5", "2", "95", "3", "24", "0", "0", "50",
               "50", "1.43", "GT", "GTGT">>

RowWordsB == <<"5", "24", "2", "10", "2", "95", "0", "50", "0", "0", "50",
               "50", "1", "GT", "GTGT">>

\* fifteen words that are not numbers
TextWords == [k \in 1..NFields |-> "x"]

TrfLines ==
    {Line(<<"Tandem", "Repeats">>),
     Line(<<>>),
     Line(<<"Sequence:", "chr1">>),
     Line(<<"Sequence:", "chr2">>),
     Line(<<"Sequence:">>),
     Line(<<"Parameters:", "2", "5", "7", "50">>),
     Line(RowWordsA),
     Line(RowWordsB),
     Line(SubSeq(RowWordsA, 1, NFields - 1)),
     Line(RowWordsA \o <<"GT">>),
     Line(TextWords)}

RECURSIVE TrfFilesOfLen(_)
TrfFilesOfLen(n) ==
    IF n = 0 THEN {<<>>}
    ELSE {Append(f, l) : f \in TrfFilesOfLen(n - 1), l \in TrfLines}

TrfFiles == UNION {TrfFilesOfLen(n) : n \in 0..MaxLines}

\* fin = open(...); data = []; sequence_name = None
ScanFrame ==
    [fn            |-> "scandata",
     sequence_name |-> <<>>,
     data          |-> <<>>,
     df            |-> <<>>,
     exc           |-> ""]

\* t.scandata(), up to the first loop
ScanStart ==
    /\ pc = "idle"
    /\ fv' = ScanFrame
    /\ pos' = 0
    /\ pc' = "header"
    /\ UNCHANGED <<file, cfgVars, fbVars, callVars>>

\* sequence_name = line.split()[1].strip(), given the fields of the line
NameSet(f, fields) ==
    IF Len(fields) < 2 THEN [f EXCEPT !.exc = "IndexError"]
    ELSE [f EXCEPT !.sequence_name = <<fields[2]>>]

\* fin.readline(): the next line, or "" at the end of the file
ReadLine == IF pos < Len(file) THEN file[pos + 1] ELSE <<>>

\* one turn of "while sequence_name is None"
ScanHeaderStep ==
    /\ pc = "header"
    /\ fv' = IF StartsWith(ReadLine, S_Sequence)
             THEN NameSet(fv, SplitWhite(ReadLine))
             ELSE fv
    /\ pos' = IF pos < Len(file) THEN pos + 1 ELSE pos
    /\ pc' = IF fv'.exc # "" THEN "raised"
             ELSE IF fv'.sequence_name # <<>> THEN "rows"
             ELSE "header"
    /\ UNCHANGED <<file, cfgVars, fbVars, callVars>>

\* data.append([sequence_name] + this_data) when there are 15 fields
RowAppended(f, this_data) ==
    IF Len(this_data) = NFields
    THEN [f EXCEPT !.data = Append(@, [sequence_name |-> f.sequence_name[1],
                                       this_data     |-> this_data])]
    ELSE f

\* one turn of "for line in fin.readlines()"
ScanRowStep ==
    /\ pc = "rows"
    /\ pos < Len(file)
    /\ fv' = IF StartsWith(file[pos + 1], S_Sequence)
             THEN NameSet(fv, SplitWhite(file[pos + 1]))
             ELSE RowAppended(fv, SplitWhite(file[pos + 1]))
    /\ pos' = pos + 1
    /\ pc' = IF fv'.exc # "" THEN "raised" ELSE "rows"
    /\ UNCHANGED <<file, cfgVars, fbVars, callVars>>

\* astype: start, end and period_size are read as integers, the other
\* columns up to entropy as floats
Numeric(this_data) ==
    /\ \A k \in 1..3 : ParseInt(this_data[k]).ok
    /\ \A k \in 4..(NFields - 2) : ParseFloat(this_data[k]).ok

\* a row of the frame returned: its name, its columns converted, and
\* length = end - start + 1
FrameRow(r) ==
    [sequence_name |-> r.sequence_name,
     start         |-> ParseInt(r.this_data[1]).val,
     end           |-> ParseInt(r.this_data[2]).val,
     numbers       |-> [k \in 3..(NFields - 2) |-> ParseFloat(r.this_data[k]).val],
     seq1          |-> r.this_data[NFields - 1],
     seq2          |-> r.this_data[NFields],
     length        |-> ParseInt(r.this_data[2]).val
                         - ParseInt(r.this_data[1]).val + 1]

\* df = pd.DataFrame(data); df.columns = [16 names]; astype; length
Framed(f) ==
    IF f.data = <<>>
    THEN [f EXCEPT !.exc = "ValueError"]    \* no column to name
    ELSE IF \E i \in 1..Len(f.data) : ~Numeric(f.data[i].this_data)
    THEN [f EXCEPT !.exc = "ValueError"]
    ELSE [f EXCEPT !.df = <<[i \in 1..Len(f.data) |-> FrameRow(f.data[i])]>>]

\* the lines are exhausted: the frame is built and returned
ScanReturn ==
    /\ pc = "rows"
    /\ pos = Len(file)
    /\ fv' = Framed(fv)
    /\ pc' = IF fv'.exc # "" THEN "raised" ELSE "done"
    /\ UNCHANGED <<file, pos, cfgVars, fbVars, callVars>>

InitTrf ==
    /\ InitEngine
    /\ IdleFreebayes
    /\ call = NoCall /\ ret = "pending"
    /\ file \in TrfFiles
    /\ pos = 0
    /\ pc = "idle"
    /\ fv = NoFrame

NextTrf ==
    \/ ScanStart
    \/ ScanHeaderStep
    \/ ScanRowStep
    \/ ScanReturn

SpecTrf == InitTrf /\ [][NextTrf]_vars

\* scandata runs on one thread that takes its next step whenever it has one
SpecTrfLive == InitTrf /\ [][NextTrf]_vars /\ WF_vars(NextTrf)

-----------------------------------------------------------------------------
(* VCF_freebayes: specification SpecFb.
   file is the VCF file, [samples, records]; pos counts the records the
   reader has given. *)

\* d1.update(d2) replacing d1: the keys d2 lacks fall back to 0
Update_Replace(d1, d2) ==
    [k \in DOMAIN d1 \cup DOMAIN d2 |-> IF k \in DOMAIN d2 THEN d2[k] ELSE 0]

\* d1.update(d2): the keys of d2 take its values, the others keep theirs
Update(d1, d2) ==
    [k \in DOMAIN d1 \cup DOMAIN d2 |-> IF k \in DOMAIN d2 THEN d2[k] ELSE d1[k]]

\* sum(items) of a list of numbers
RECURSIVE Sum(_)
Sum(items) == IF items = <<>> THEN 0 ELSE Head(items) + Sum(Tail(items))

\* compute_frequency(vcf_line): the frequency of each alternate allele
compute_frequency(vcf_line) == vcf_line.alt_freq

\* compute_strand_balance(vcf_line): the strand balance of each alternate
compute_strand_balance(vcf_line) == vcf_line.strand_bal

\* VCF_freebayes._filter_line with the two depth tests not strict
VCF_freebayes_filter_line_NotStrict(vcf_line, params, is_joint) ==
    IF vcf_line.QUAL < params["freebayes_score"] THEN FALSE
    ELSE IF vcf_line.INFO.DP < params["min_depth"] THEN FALSE
    ELSE IF is_joint THEN TRUE
    ELSE IF vcf_line.INFO.SRF + Sum(vcf_line.INFO.SAF) < params["forward_depth"]
         THEN FALSE
    ELSE IF vcf_line.INFO.SRR + Sum(vcf_line.INFO.SAR) < params["reverse_depth"]
         THEN FALSE
    ELSE IF compute_frequency(vcf_line)[1] < params["frequency"] THEN FALSE
    ELSE IF compute_strand_balance(vcf_line)[1] < params["strand_ratio"]
         THEN FALSE
    ELSE TRUE

\* VCF_freebayes._filter_line(vcf_line), given self.filters_params and
\* self.is_joint
VCF_freebayes_filter_line(vcf_line, params, is_joint) ==
    IF vcf_line.QUAL < params["freebayes_score"] THEN FALSE
    ELSE IF vcf_line.INFO.DP <= params["min_depth"] THEN FALSE
    ELSE IF is_joint THEN TRUE
    ELSE IF vcf_line.INFO.SRF + Sum(vcf_line.INFO.SAF) <= params["forward_depth"]
         THEN FALSE
    ELSE IF vcf_line.INFO.SRR + Sum(vcf_line.INFO.SAR) <= params["reverse_depth"]
         THEN FALSE
    ELSE IF compute_frequency(vcf_line)[1] < params["frequency"] THEN FALSE
    ELSE IF compute_strand_balance(vcf_line)[1] < params["strand_ratio"]
         THEN FALSE
    ELSE TRUE

\* the dict is neither None nor empty: "if filter_dict:"
Truthy(fdarg) == fdarg # NoArg /\ DOMAIN fdarg[1] # {}

\* self._filters_params after the first statements of filter_vcf
ParamsAfter(fdarg) ==
    IF Truthy(fdarg) THEN Update(_filters_params, fdarg[1]) ELSE _filters_params

\* [v for v in self if self._filter_line(v)]
KeptBy(records, params, is_joint) ==
    SelectSeq(records, LAMBDA v : VCF_freebayes_filter_line(v, params, is_joint))

\* a record of a freebayes VCF: numbers in hundredths
FbRecord(qual, dp, srf, saf, srr, sar, freq, bal) ==
    [QUAL |-> qual,
     INFO |-> [DP |-> dp, SRF |-> srf, SAF |-> saf, SRR |-> srr, SAR |-> sar],
     alt_freq |-> freq, strand_bal |-> bal]

\* the filter_dict of the class docstring
D_example ==
    [k \in ParamNames |->
        IF k = "freebayes_score" THEN N(200)
        ELSE IF k = "frequency" THEN 80
        ELSE IF k = "min_depth" THEN N(10)
        ELSE IF k = "strand_ratio" THEN 20
        ELSE N(3)]

D_score == [k \in {"freebayes_score"} |-> N(100)]

D_depth == [k \in {"min_depth", "frequency"} |-> IF k = "min_depth" THEN N(20) ELSE 50]

D_empty == [k \in {} |-> 0]

ParamDicts == {D_example, D_score, D_depth, D_empty}

\* a record that passes every filter of D_example, each at its limit
F_pass ==
    FbRecord(N(200), N(11), N(1), <<N(3)>>, N(0), <<N(1), N(3)>>,
             <<80, 10>>, <<20, 10>>)

F_lowQual == [F_pass EXCEPT !.QUAL = N(200) - 1]

F_lowDP == [F_pass EXCEPT !.INFO.DP = N(10)]

F_lowForward == [F_pass EXCEPT !.INFO.SRF = 0]

F_lowReverse == [F_pass EXCEPT !.INFO.SAR = <<N(1), N(2)>>]

F_lowFreq == [F_pass EXCEPT !.alt_freq = <<79, 90>>]

F_lowBalance == [F_pass EXCEPT !.strand_bal = <<19, 50>>]

FbRecords == {F_pass, F_lowQual, F_lowDP, F_lowForward, F_lowReverse,
              F_lowFreq, F_lowBalance}

FbFileRecords == {F_pass, F_lowDP, F_lowFreq}

RECURSIVE FbRecordsOfLen(_)
FbRecordsOfLen(n) ==
    IF n = 0 THEN {<<>>}
    ELSE {Append(f, v) : f \in FbRecordsOfLen(n - 1), v \in FbFileRecords}

\* the samples of the header: unreadable, one sample, two samples
FbSamples == {<<>>, <<1>>, <<2>>}

FbFiles ==
    {[samples |-> sm, records |-> r] :
        sm \in FbSamples, r \in UNION {FbRecordsOfLen(n) : n \in 0..MaxRecords}}

InitFb ==
    /\ InitEngine
    /\ file \in FbFiles
    /\ VCF_freebayes_init(file.samples)
    /\ call = NoCall /\ ret = "pending"
    /\ pos = 0
    /\ pc = "idle"
    /\ fv = NoFrame

\* v.filters_params = d
SetFiltersParams(d) ==
    /\ _filters_params' = Update(_filters_params, d)
    /\ call' = [fn |-> "filters_params.setter", d |-> d]
    /\ ret' = "None"
    /\ UNCHANGED <<_is_joint, cfgVars, passVars>>

\* del v.filters_params
DelFiltersParams ==
    /\ _filters_params' = ZeroParams
    /\ call' = [fn |-> "filters_params.deleter"]
    /\ ret' = "None"
    /\ UNCHANGED <<_is_joint, cfgVars, passVars>>

\* v.filter_vcf() or v.filter_vcf(filter_dict): ret is the list of the
\* variants of the Filtered_freebayes returned
VCF_freebayes_filter_vcf(fdarg) ==
    /\ _filters_params' = ParamsAfter(fdarg)
    /\ call' = [fn |-> "filter_vcf", filter_dict |-> fdarg]
    /\ ret' = KeptBy(file.records, ParamsAfter(fdarg), _is_joint)
    /\ pos' = Len(file.records)
    /\ UNCHANGED <<_is_joint, cfgVars, file, pc, fv>>

\* v._filter_line(vcf_line)
Call_VCF_freebayes_filter_line(vcf_line) ==
    /\ call' = [fn |-> "VCF_freebayes._filter_line", vcf_line |-> vcf_line]
    /\ ret' = Bool(VCF_freebayes_filter_line(vcf_line, _filters_params, _is_joint))
    /\ UNCHANGED <<fbVars, cfgVars, passVars>>

NextFb ==
    \/ \E d \in ParamDicts : SetFiltersParams(d)
    \/ DelFiltersParams
    \/ \E d \in ParamDicts : VCF_freebayes_filter_vcf(Arg(d))
    \/ VCF_freebayes_filter_vcf(NoArg)
    \/ \E v \in FbRecords : Call_VCF_freebayes_filter_line(v)

SpecFb == InitFb /\ [][NextFb]_vars

-----------------------------------------------------------------------------
(* Claims on the pure methods, checked under SpecFn *)

Returned(fn) == call.fn = fn /\ ret # "pending"

\* C1: for every numeric threshold t and value v, _filter_info_field(v, "<"+t)
\* returns v < t, "<="+t returns v <= t, ">"+t returns v > t and ">="+t
\* returns v >= t; at v = t the strict forms are false, the others true.
C1_SingleClause ==
    Returned("_filter_info_field") =>
        \A t \in ThresholdNums :
            /\ call.threshold = <<"<">> \o NumStr(t)
                  => ret = Bool(call.info_value < t)
            /\ call.threshold = <<"<", "=">> \o NumStr(t)
                  => ret = Bool(call.info_value <= t)
            /\ call.threshold = <<">">> \o NumStr(t)
                  => ret = Bool(call.info_value > t)
            /\ call.threshold = <<">", "=">> \o NumStr(t)
                  => ret = Bool(call.info_value >= t)

\* "<=0.5" evaluated on 0.5 has returned True
C1_Witness ==
    /\ Returned("_filter_info_field")
    /\ call.threshold = <<"<", "=", "0", ".", "5", "0">>
    /\ call.info_value = 50
    /\ ret = "True"

\* one clause of the threshold grammar: a comparator and a number
IsClause(s) ==
    \E op \in Ops : StartsWith(s, op) /\ ParseFloat(From(s, Len(op))).ok

\* clause (c clause)*, blanks allowed around the clauses
IsChain(s, c) ==
    LET parts == Split(s, c)
    IN \A i \in 1..Len(parts) : IsClause(Strip(parts[i]))

\* C2: for X and Y of the threshold grammar with the same connective (each a
\* clause or a chain), "X&Y" on v returns evaluate(X,v) AND evaluate(Y,v),
\* "X|Y" returns evaluate(X,v) OR evaluate(Y,v), without raising.
C2_Composition ==
    Returned("_filter_info_field") =>
        \A i \in 1..Len(call.threshold) : \A c \in {"&", "|"} :
            LET X == SubSeq(call.threshold, 1, i - 1)
                Y == SubSeq(call.threshold, i + 1, Len(call.threshold))
                ex == _filter_info_field(call.info_value, Strip(X))
                ey == _filter_info_field(call.info_value, Strip(Y))
            IN (call.threshold[i] = c /\ IsChain(X, c) /\ IsChain(Y, c)) =>
                  /\ ret \in {"True", "False"}
                  /\ ex \in {"True", "False"}
                  /\ ey \in {"True", "False"}
                  /\ (ret = "True") <=>
                        IF c = "&" THEN ex = "True" /\ ey = "True"
                        ELSE ex = "True" \/ ey = "True"

\* "polymorphic" as the claims state it: ALT[0] non-null and, stripped, not "."
Polymorphic(variant) ==
    variant.ALT[1] # None /\ Strip(variant.ALT[1]) # <<".">>

\* C8: for a record with AF1 in INFO, is_valid_af1 is true exactly when
\* AF1 >= min_af1 for a polymorphic record, and exactly when
\* AF1 <= 1 - min_af1 for a non-polymorphic one; both boundaries pass.
C8_Af1 ==
    (Returned("is_valid_af1") /\ K_AF1 \in DOMAIN call.variant.INFO) =>
        LET af1 == call.variant.INFO[K_AF1].val
        IN ret = Bool(IF Polymorphic(call.variant)
                      THEN af1 >= call.minimum_af1
                      ELSE af1 <= Scale - call.minimum_af1)

\* a non-polymorphic record with AF1 = 0.05 = 1 - 0.95 has passed
C8_Witness ==
    /\ Returned("is_valid_af1")
    /\ call.minimum_af1 = 95
    /\ K_AF1 \in DOMAIN call.variant.INFO
    /\ call.variant.INFO[K_AF1].val = 5
    /\ call.variant.ALT = AltDot
    /\ ret = "True"

\* a / b >= r, the ratio being 0 when b is 0
RatioAtLeast(a, b, r) == IF b = 0 THEN 0 >= r ELSE a * Scale >= r * b

Dp4Example == List(<<N(10), N(10), N(1), N(1)>>)

\* C9: is_valid_dp4 is true exactly when, with (fwd, rev) the alt counts of
\* a polymorphic record and the ref counts of a non-polymorphic one,
\* fwd+rev >= min_depth, fwd >= min_depth_strand, rev >= min_depth_strand,
\* fwd/(ref_fwd+alt_fwd) >= min_ratio and rev/(ref_rev+alt_rev) >= min_ratio
\* (a ratio is 0 when its denominator is 0).  A non-polymorphic record with
\* DP4=[10,10,1,1], min_depth=4, min_depth_strand=2 is kept for
\* min_ratio=0.75 and discarded for min_ratio=0.95.
C9_Dp4 ==
    (Returned("is_valid_dp4") /\ K_DP4 \in DOMAIN call.variant.INFO) =>
        LET d   == call.variant.INFO[K_DP4].items
            q   == call.params
            fwd == IF Polymorphic(call.variant) THEN d[3] ELSE d[1]
            rev == IF Polymorphic(call.variant) THEN d[4] ELSE d[2]
        IN /\ ret = Bool(/\ fwd + rev >= q.minimum_depth
                         /\ fwd >= q.minimum_depth_strand
                         /\ rev >= q.minimum_depth_strand
                         /\ RatioAtLeast(fwd, d[1] + d[3], q.minimum_ratio)
                         /\ RatioAtLeast(rev, d[2] + d[4], q.minimum_ratio))
           /\ ( /\ ~Polymorphic(call.variant)
                /\ call.variant.INFO[K_DP4] = Dp4Example
                /\ q.minimum_depth = N(4) /\ q.minimum_depth_strand = N(2) )
              => /\ q.minimum_ratio = 75 => ret = "True"
                 /\ q.minimum_ratio = 95 => ret = "False"

\* the non-polymorphic DP4=[10,10,1,1] has been discarded at min_ratio=0.95
C9_Witness ==
    /\ Returned("is_valid_dp4")
    /\ call.variant.ALT = AltNone
    /\ K_DP4 \in DOMAIN call.variant.INFO
    /\ call.variant.INFO[K_DP4] = Dp4Example
    /\ call.params.minimum_depth = N(4)
    /\ call.params.minimum_depth_strand = N(2)
    /\ call.params.minimum_ratio = 95
    /\ ret = "False"

\* C18: the VCF factory selects its backend from the header only: version
\* "4.1" gives the mpileup filter; version "4.2" with a source starting with
\* "freeBayes" gives the freebayes filter; any other version/source raises
\* ValueError when force is not True, and with force=True yields the
\* unfiltered base reader without raising.
C18_Factory ==
    Returned("VCF") =>
        ret = IF call.version = S_4dot1 THEN "VCF_mpileup_4dot1"
              ELSE IF /\ call.version = S_4dot2
                      /\ Len(call.source) >= Len(S_freeBayes)
                      /\ SubSeq(call.source, 1, Len(S_freeBayes)) = S_freeBayes
                   THEN "VCF_freebayes"
              ELSE IF call.force = "True" THEN "VCFBase"
              ELSE "ValueError"

\* a 4.2 header from another caller, with force=1, has raised ValueError
C18_Witness ==
    /\ Returned("VCF")
    /\ call.version = S_4dot2
    /\ call.source = <<"s", "a", "m", "t", "o", "o", "l", "s">>
    /\ call.force = "1"
    /\ ret = "ValueError"

\* the places of character c in s
Places(s, c) == {i \in 1..Len(s) : s[i] = c}

\* the one place of c in s
Place(s, c) == CHOOSE i \in Places(s, c) : TRUE

\* the three clauses of an expression cut at the places i < j
Cut3(s, i, j) ==
    <<Strip(SubSeq(s, 1, i - 1)), Strip(SubSeq(s, i + 1, j - 1)),
      Strip(SubSeq(s, j + 1, Len(s)))>>

\* exactly one "&" and one "|", between three clauses of the grammar
OneAndOneOr(s) ==
    /\ Cardinality(Places(s, "&")) = 1
    /\ Cardinality(Places(s, "|")) = 1
    /\ \A n \in 1..3 :
          IsClause(Cut3(s, IF Place(s, "&") < Place(s, "|") THEN Place(s, "&")
                           ELSE Place(s, "|"),
                        IF Place(s, "&") < Place(s, "|") THEN Place(s, "|")
                           ELSE Place(s, "&"))[n])

\* the clause holds of the value
Holds(v, clause) == _filter_info_field(v, clause) = "True"

\* "A&B|C" read as A and (B or C)
AndFirstValue(v, parts) ==
    Holds(v, parts[1]) /\ (Holds(v, parts[2]) \/ Holds(v, parts[3]))

\* "A|B&C" read as (A or B) and C
OrFirstValue(v, parts) ==
    (Holds(v, parts[1]) \/ Holds(v, parts[2])) /\ Holds(v, parts[3])

\* C28: in an expression with exactly one "&" and one "|", "&" is the outer
\* connective whatever the order: "A&B|C" gives A and (B or C), "A|B&C"
\* gives (A or B) and C.
C28_AndIsOuter ==
    (Returned("_filter_info_field") /\ OneAndOneOr(call.threshold)) =>
        ret = IF Place(call.threshold, "&") < Place(call.threshold, "|")
              THEN Bool(AndFirstValue(call.info_value,
                            Cut3(call.threshold, Place(call.threshold, "&"),
                                 Place(call.threshold, "|"))))
              ELSE Bool(OrFirstValue(call.info_value,
                            Cut3(call.threshold, Place(call.threshold, "|"),
                                 Place(call.threshold, "&"))))

\* ">30|<60&>=60" on 45: the first clause holds, the last does not, and the
\* result is False
C28_Witness ==
    /\ Returned("_filter_info_field")
    /\ call.info_value = N(45)
    /\ call.threshold = Clause(<<">">>, N(30)) \o <<"|">>
                            \o Clause(<<"<">>, N(60)) \o <<"&">>
                            \o Clause(<<">", "=">>, N(60))
    /\ ret = "False"

-----------------------------------------------------------------------------
(* Claims on _filter_line, checked under SpecLine *)

\* the engine with its INFO rules replaced by rules
WithRules(rules) == [Self EXCEPT !.filter_dict.INFO = rules]

\* what the call made would have returned on the engine self
Again(self) == _filter_line(self, call.vcf_line, NoArg, call.iline)

\* C3: for a record that passes the QUAL, indel, DP4 and AF1 checks, every
\* generic INFO rule is applied: if one rule, taken alone, would discard the
\* record, the record is discarded whatever the other rules and their
\* order; it is kept only when it survives all of them.
C3_EveryRuleApplied ==
    (Returned("_filter_line") /\ Again(WithRules(<<>>)) = "True") =>
        \A i \in 1..Len(filter_dict.INFO) :
            /\ Again(WithRules(<<filter_dict.INFO[i]>>)) = "False"
                  => ret = "False"
            /\ ret = "True"
                  => Again(WithRules(<<filter_dict.INFO[i]>>)) = "True"

INDELFlag(variant) ==
    K_INDEL \in DOMAIN variant.INFO /\ variant.INFO[K_INDEL].val # 0

\* REF holds a comma, ALT[0] holds a comma, or INFO has a truthy INDEL
IndelByClaim(variant) ==
    \/ Contains(variant.REF, ",")
    \/ variant.ALT[1] # None /\ Contains(variant.ALT[1], ",")
    \/ INDELFlag(variant)

\* C7: with the indel filter enabled a record is discarded whenever its REF
\* contains a comma (REF = "A,AT"), its ALT a comma-separated list, or its
\* INFO a truthy INDEL flag, whatever the other settings; a record with none
\* of the three is not discarded by the indel filter.
C7_IndelFilter ==
    (Returned("_filter_line") /\ apply_indel_filter) =>
        IF IndelByClaim(call.vcf_line)
        THEN ret = "False"
        ELSE ret = Again([Self EXCEPT !.apply_indel_filter = FALSE])

\* C10: with apply_dp4_filter on and no DP4 key in INFO, or apply_af1_filter
\* on and no AF1 key, that filter does not apply: it neither discards the
\* record nor raises, and the remaining checks alone decide.
C10_MissingKeyInapplicable ==
    Returned("_filter_line") =>
        /\ (apply_dp4_filter /\ K_DP4 \notin DOMAIN call.vcf_line.INFO)
              => ret = Again([Self EXCEPT !.apply_dp4_filter = FALSE])
        /\ (apply_af1_filter /\ K_AF1 \notin DOMAIN call.vcf_line.INFO)
              => ret = Again([Self EXCEPT !.apply_af1_filter = FALSE])

\* both filters on, a record with neither key, kept
C10_Witness ==
    /\ Returned("_filter_line")
    /\ apply_dp4_filter /\ apply_af1_filter
    /\ call.vcf_line = V_noInfo
    /\ ret = "True"

\* the INFO key that a rule key names: K for "K", "K[i]" and "sum(K[i],K[j])"
RuleInfoKey(key) ==
    IF StartsWith(key, S_sum)
    THEN SumKey(SumExpr(Replace(key, S_sum, S_sumlist)))
    ELSE Strip(Split1(key, "[")[1])

NamesPresentKey(rule, variant) ==
    RuleInfoKey(rule.key) \in DOMAIN variant.INFO

\* the rules whose key is present in the record's INFO, in their order
PresentRules(rules, variant) ==
    SelectSeq(rules, LAMBDA r : NamesPresentKey(r, variant))

\* C11: a generic INFO rule (plain key, indexed key K[i] or reducer
\* sum(K[i],K[j])) naming a key absent from the record's INFO is skipped for
\* that record: _filter_line, called with or without a line number, raises
\* nothing on that basis and returns what the rules naming present keys
\* alone make it return.
C11_MissingKeySkipped ==
    Returned("_filter_line") =>
        ret = Again(WithRules(PresentRules(filter_dict.INFO, call.vcf_line)))

\* C17: a generic INFO rule keeps the records whose value satisfies the
\* threshold expression: with DP = "<30|>60" as the only rule a record that
\* passes the built-in checks is kept exactly when its DP is below 30 or
\* above 60, and with DP = ">30&<60" exactly when it is between 30 and 60.
C17_RuleKeepsMatching ==
    (/\ Returned("_filter_line")
     /\ Again(WithRules(<<>>)) = "True"
     /\ K_DP \in DOMAIN call.vcf_line.INFO) =>
        /\ filter_dict.INFO = <<R_DP_outside>>
              => ret = Bool(\/ call.vcf_line.INFO[K_DP].val < N(30)
                            \/ call.vcf_line.INFO[K_DP].val > N(60))
        /\ filter_dict.INFO = <<R_DP_inside>>
              => ret = Bool(/\ call.vcf_line.INFO[K_DP].val > N(30)
                            /\ call.vcf_line.INFO[K_DP].val < N(60))

-----------------------------------------------------------------------------
(* Claims on filter_vcf, checked under Spec *)

\* the lines of the file on which _filter_line returns r during the pass
LinesReturning(r) ==
    {i \in 1..Len(file) :
        _filter_line(Self, file[i], Arg(fv.filter_dict), Num(i - 1)) = r}

\* C4: when filter_vcf completes a pass, N == filtered + unfiltered, where
\* unfiltered is the number of records for which _filter_line returned true
\* (those written to the kept output) and filtered the number for which it
\* returned false.
C4_Counts ==
    pc = "done" =>
        /\ fv.result[1].N = fv.result[1].filtered + fv.result[1].unfiltered
        /\ fv.result[1].unfiltered = Cardinality(LinesReturning("True"))
        /\ fv.result[1].unfiltered = Len(fv.out)
        /\ fv.result[1].filtered = Cardinality(LinesReturning("False"))

\* a completed pass that kept one record and discarded another
C4_Witness ==
    /\ pc = "done"
    /\ fv.result[1].unfiltered = 1
    /\ fv.result[1].filtered = 1

\* C5: filter_vcf run twice in a row on the same input with the same
\* configuration yields identical counts and identical kept and discarded
\* record sequences; the second pass completes as the first did.
C5_Idempotent ==
    (pc \in {"scanning", "done", "raised"} /\ fv.prev # <<>>) =>
        /\ pc # "raised"
        /\ pc = "done" =>
              /\ fv.result = fv.prev[1].result
              /\ fv.out = fv.prev[1].out
              /\ fv.output_filtered = fv.prev[1].output_filtered
                    => fv.outf = fv.prev[1].outf

\* a second pass has completed after a first that kept and discarded
C5_Witness ==
    /\ pc = "done"
    /\ fv.prev # <<>>
    /\ fv.output_filtered /\ fv.prev[1].output_filtered
    /\ Len(fv.out) = 1
    /\ Len(fv.outf) = 1

\* the configuration __init__ leaves
FreshConfig ==
    /\ filter_dict = [QUAL |-> -Scale, INFO |-> <<>>]
    /\ ~apply_dp4_filter /\ ~apply_af1_filter /\ ~apply_indel_filter

\* C6: with a freshly constructed filter (QUAL threshold unset, no INFO
\* rule, indel, AF1 and DP4 filters off) no filter is applied: every record
\* read is kept, whatever its QUAL, REF, ALT and INFO, and filter_vcf
\* reports filtered == 0.
C6_NoFilterByDefault ==
    (FreshConfig /\ pc \in {"scanning", "done", "raised"}) =>
        /\ pc # "raised"
        /\ fv.out = SubSeq(file, 1, pos)
        /\ fv.outf = <<>>
        /\ pc = "done" =>
              /\ fv.result[1].filtered = 0
              /\ fv.result[1].unfiltered = Len(file)

\* a default pass over a missing QUAL, an INDEL flag and a REF with a comma
C6_Witness ==
    /\ FreshConfig
    /\ pc = "done"
    /\ file = <<V_odd, V_bare>>
    /\ fv.output_filtered
    /\ fv.result[1].filtered = 0

\* the index i of a rule key "K[i]"
RuleIndex(key) == ParseInt(Strip(Remove(Split1(key, "[")[2], "]")))

IndexReaches(idx, items) == idx.ok /\ idx.val >= Len(items)

\* the rule is "K[i]" and the record's INFO[K] is a sequence of length <= i
IndexBeyond(rule, variant) ==
    /\ ~StartsWith(rule.key, S_sum)
    /\ Contains(rule.key, "[") /\ Contains(rule.key, "]")
    /\ RuleInfoKey(rule.key) \in DOMAIN variant.INFO
    /\ variant.INFO[RuleInfoKey(rule.key)].isList
    /\ IndexReaches(RuleIndex(rule.key), variant.INFO[RuleInfoKey(rule.key)].items)

\* the rules whose index, if any, falls inside the record's sequence
InRangeRules(rules, variant) ==
    SelectSeq(rules, LAMBDA r : ~IndexBeyond(r, variant))

\* the frame's filter_dict with the rules out of range for variant skipped
SkippingBeyond(f, variant) ==
    [f.filter_dict EXCEPT !.INFO = InRangeRules(@, variant)]

\* C12: when an indexed rule K[i] meets a record whose INFO[K] is a sequence
\* of length <= i, that rule is skipped for that record: the turn of the loop
\* does what it does without the rule, the pass is not aborted on that basis
\* and goes on to the following records.
C12_IndexBeyondSkipped ==
    [][(/\ pc = "scanning" /\ pos < Len(file) /\ pos' = pos + 1
        /\ \E i \in 1..Len(fv.filter_dict.INFO) :
               IndexBeyond(fv.filter_dict.INFO[i], file[pos + 1]))
       => fv' = AfterLine(fv, file[pos + 1],
                          _filter_line(Self, file[pos + 1],
                                       Arg(SkippingBeyond(fv, file[pos + 1])),
                                       Num(pos)))]_vars

\* every piece of t between "|" is a clause of the grammar
OrOfClauses(t) ==
    \A j \in 1..Len(Split(t, "|")) : IsClause(Strip(Split(t, "|")[j]))

\* a threshold of the grammar: clauses joined by "&" or "|"
WellFormedThreshold(t) ==
    \A i \in 1..Len(Split(t, "&")) : OrOfClauses(Split(t, "&")[i])

\* a malformed rule: a clause with no leading <, <=, > or >=, or a key with
\* an opening bracket and no closing one
Malformed(rule) ==
    \/ ~WellFormedThreshold(rule.value)
    \/ Contains(rule.key, "[") /\ ~Contains(rule.key, "]")

HasMalformed(rules) == \E i \in 1..Len(rules) : Malformed(rules[i])

\* C13: a malformed rule (a threshold clause without comparator such as
\* "~30", a key with an unclosed bracket such as "DP4[2") raises a
\* configuration error before the pass starts: a pass configured with one
\* is never scanning or done, and when it has raised nothing has been
\* written to either output.
C13_MalformedRejectedBeforePass ==
    (pc \in {"scanning", "done", "raised"} /\ HasMalformed(fv.filter_dict.INFO))
        => /\ pc = "raised"
           /\ fv.out = <<>>
           /\ fv.outf = <<>>

\* the key wraps its arguments in a function name other than sum
WrapsOtherFunction(key) == Contains(key, "(") /\ ~StartsWith(key, S_sum)

HasOtherFunction(rules) ==
    \E i \in 1..Len(rules) : WrapsOtherFunction(rules[i].key)

\* C14: a rule key wrapping its arguments in a function name other than sum
\* ("max(DP4[0],DP4[2])", "min(DP)") is rejected with a configuration error
\* and never silently skipped: no pass configured with such a key completes
\* having kept a record.
C14_OtherFunctionRejected ==
    (pc = "done" /\ HasOtherFunction(fv.filter_dict.INFO)) => fv.out = <<>>

\* C15: a single record with a malformed value (a missing QUAL while a QUAL
\* threshold is set) never aborts filter_vcf: the turn of the loop discards
\* that record alone, raises nothing, and the pass goes on scanning.
C15_BadRecordDiscarded ==
    [][(/\ pc = "scanning" /\ pos < Len(file) /\ pos' = pos + 1
        /\ fv.filter_dict.QUAL # -Scale
        /\ file[pos + 1].QUAL.none)
       => /\ pc' = "scanning"
          /\ fv' = AfterLine(fv, file[pos + 1], "False")]_vars

\* C16: filter_vcf closes both output files it opened (the kept output, and
\* the discarded output when output_filtered is given) on every exit path,
\* a raised exception included.
C16_OutputsClosed ==
    pc \in {"done", "raised"} =>
        /\ fv.fp = "closed"
        /\ fv.output_filtered => fv.fpf = "closed"

-----------------------------------------------------------------------------
(* Claims on BUSCO.save_core_genomes, checked under SpecBusco *)

\* C19: every gene whose status is Missing produces one FASTA entry whose
\* header carries that gene's own ID and whose sequence is 100 N's, wherever
\* the gene falls in the table (first record, or after a record of another
\* gene); the output has one sequence per gene of the core genome.
C19_MissingGeneEntry ==
    pc \in {"writing", "done", "raised"} =>
        /\ pc # "raised"
        /\ Len(fv.out) = pos
        /\ \A i \in 1..Len(fv.out) :
              fv.subdf[i].Status = "Missing" =>
                 /\ fv.out[i].ID = fv.subdf[i].ID
                 /\ fv.out[i].data = Repeat("N", 100)
        /\ pc = "done" =>
              Len(fv.out) = Cardinality({file[i].ID : i \in 1..Len(file)})

-----------------------------------------------------------------------------
(* Claims on TRF.scandata, checked under SpecTrf *)

IsSequenceLine(i) == StartsWith(file[i], S_Sequence)

HasSequenceLine == \E i \in 1..Len(file) : IsSequenceLine(i)

\* the first line starting with "Sequence:"
FirstSequenceLine ==
    CHOOSE i \in 1..Len(file) :
        IsSequenceLine(i) /\ \A j \in 1..(i - 1) : ~IsSequenceLine(j)

\* the lines after it that have exactly 15 fields, in file order
RowLines ==
    SelectSeq([i \in 1..Len(file) |-> i],
              LAMBDA i : /\ i > FirstSequenceLine
                         /\ Len(SplitWhite(file[i])) = NFields)

\* the most recent "Sequence:" line before line i
NamingLine(i) ==
    CHOOSE j \in 1..(i - 1) :
        IsSequenceLine(j) /\ \A k \in (j + 1)..(i - 1) : ~IsSequenceLine(k)

\* C20: scandata returns one row for each line, after the first "Sequence:"
\* line, that has exactly 15 whitespace-separated fields, in file order, each
\* labelled with the name of the most recent preceding "Sequence:" line;
\* lines with any other field count produce no row.
C20_RowsOfScandata ==
    (pc \in {"done", "raised"} /\ HasSequenceLine) =>
        /\ pc = "done"
        /\ Len(fv.df[1]) = Len(RowLines)
        /\ \A k \in 1..Len(RowLines) :
              /\ <<S_Sequence, fv.df[1][k].sequence_name>>
                    = SubSeq(SplitWhite(file[NamingLine(RowLines[k])]), 1, 2)
              /\ fv.df[1][k].seq2 = SplitWhite(file[RowLines[k]])[NFields]
              /\ fv.df[1][k].start
                    = ParseInt(SplitWhite(file[RowLines[k]])[1]).val

-----------------------------------------------------------------------------
(* Claims on VCF_freebayes, checked under SpecFb *)

\* the value the operation just called gives parameter k, if it gives one
GivesValue(k) ==
    \/ call'.fn = "filters_params.setter" /\ k \in DOMAIN call'.d
    \/ /\ call'.fn = "filter_vcf"
       /\ call'.filter_dict # NoArg
       /\ k \in DOMAIN call'.filter_dict[1]

ValueGiven(k) ==
    IF call'.fn = "filters_params.setter" THEN call'.d[k]
    ELSE call'.filter_dict[1][k]

\* the value of parameter k after the operation just called
LatestValue(k) ==
    IF call'.fn = "filters_params.deleter" THEN 0
    ELSE IF GivesValue(k) THEN ValueGiven(k)
    ELSE _filters_params[k]

\* C21: the six parameters start at 0; an assignment and a filter_vcf with
\* a non-empty dict give the parameters they name their new values and
\* leave the others as they were, a filter_vcf with no dict or an empty one
\* leaves all six as they were, and a deletion puts all six back to 0: so
\* each parameter holds the value most recently given since the last
\* deletion, or 0.
C21_LatestValueHeld ==
    /\ \A k \in ParamNames : _filters_params[k] = 0
    /\ [][/\ DOMAIN _filters_params' = ParamNames
          /\ \A k \in ParamNames : _filters_params'[k] = LatestValue(k)]_vars

\* a filter_vcf(filter_dict) naming one parameter has returned: that
\* parameter has the dict's value, another still holds the value an earlier
\* assignment gave it, a third is still 0
C21_Witness ==
    /\ call = [fn |-> "filter_vcf", filter_dict |-> Arg(D_score)]
    /\ _filters_params["freebayes_score"] = N(100)
    /\ _filters_params["min_depth"] = N(20)
    /\ _filters_params["forward_depth"] = 0

\* the VCF has more than one sample
MultiSample == file.samples # <<>> /\ file.samples[1] > 1

\* the two filters applied to every VCF pass
CommonFiltersPass(v) ==
    /\ v.QUAL >= _filters_params["freebayes_score"]
    /\ v.INFO.DP > _filters_params["min_depth"]

\* the four filters applied to a single-sample VCF pass
SingleSampleFiltersPass(v) ==
    /\ v.INFO.SRF + Sum(v.INFO.SAF) > _filters_params["forward_depth"]
    /\ v.INFO.SRR + Sum(v.INFO.SAR) > _filters_params["reverse_depth"]
    /\ v.alt_freq[1] >= _filters_params["frequency"]
    /\ v.strand_bal[1] >= _filters_params["strand_ratio"]

\* C25: VCF_freebayes._filter_line returns True exactly when QUAL >=
\* freebayes_score and DP > min_depth and, unless the VCF has several
\* samples, also SRF+sum(SAF) > forward_depth, SRR+sum(SAR) > reverse_depth,
\* the first alternate frequency >= frequency and the first strand balance
\* >= strand_ratio.
C25_KeptWhenAllPass ==
    call.fn = "VCF_freebayes._filter_line" =>
        (ret = "True" <=>
            /\ CommonFiltersPass(call.vcf_line)
            /\ MultiSample \/ SingleSampleFiltersPass(call.vcf_line))

\* with the parameters of the docstring, a single-sample VCF keeps a record
\* that sits on the limit of every filter
C25_Witness ==
    /\ call = [fn |-> "VCF_freebayes._filter_line", vcf_line |-> F_pass]
    /\ _filters_params = D_example
    /\ ~MultiSample
    /\ ret = "True"

-----------------------------------------------------------------------------
(* Claims on the value a rule tests, checked under SpecValue *)

\* the first INFO rule of the configuration, and the rules after it
FirstRule == filter_dict.INFO[1]

\* _filter_line has returned, the record passed the QUAL, indel, DP4 and AF1
\* checks, and there is a first rule
FirstRuleReached ==
    /\ Returned("_filter_line")
    /\ Again(WithRules(<<>>)) = "True"
    /\ filter_dict.INFO # <<>>

\* the key is plain ("K") or indexed ("K[i]")
PlainKey(key) == ~Contains(key, "(") /\ ~Contains(key, "[")

IndexedKey(key) ==
    /\ ~Contains(key, "(")
    /\ Contains(key, "[") /\ Contains(key, "]")
    /\ RuleIndex(key).ok

\* the rule is generic, its key is present, and its index, if any, is
\* inside the sequence
TestsValue(rule, variant) ==
    /\ PlainKey(rule.key) \/ IndexedKey(rule.key)
    /\ ~(rule.key = K_PV4 /\ ~Polymorphic(variant))
    /\ RuleInfoKey(rule.key) \in DOMAIN variant.INFO
    /\ (variant.INFO[RuleInfoKey(rule.key)].isList /\ IndexedKey(rule.key))
          => /\ RuleIndex(rule.key).val >= 0
             /\ RuleIndex(rule.key).val
                    < Len(variant.INFO[RuleInfoKey(rule.key)].items)

\* the value the rule is said to test
ValueOf(info, key) ==
    IF ~info.isList THEN info.val
    ELSE IF PlainKey(key) THEN info.items[1]
    ELSE info.items[RuleIndex(key).val + 1]

TestedValue(rule, variant) ==
    ValueOf(variant.INFO[RuleInfoKey(rule.key)], rule.key)

SumParts(key) == Split(SubSeq(key, Len(S_sum) + 1, Len(key) - 1), ",")

\* the key is "sum(K[i],K[j],...)" over the one key K, a sequence of the
\* record, with every index inside it
SumsElements(rule, variant) ==
    /\ StartsWith(rule.key, S_sum)
    /\ rule.key[Len(rule.key)] = ")"
    /\ RuleInfoKey(rule.key) \in DOMAIN variant.INFO
    /\ variant.INFO[RuleInfoKey(rule.key)].isList
    /\ \A i \in 1..Len(SumParts(rule.key)) :
          /\ IndexedKey(SumParts(rule.key)[i])
          /\ RuleInfoKey(SumParts(rule.key)[i]) = RuleInfoKey(rule.key)
          /\ RuleIndex(SumParts(rule.key)[i]).val >= 0
          /\ RuleIndex(SumParts(rule.key)[i]).val
                 < Len(variant.INFO[RuleInfoKey(rule.key)].items)

\* INFO[K][i] + INFO[K][j] + ...
SumOf(parts, items) ==
    Sum([n \in 1..Len(parts) |-> items[RuleIndex(parts[n]).val + 1]])

SummedValue(rule, variant) ==
    SumOf(SumParts(rule.key), variant.INFO[RuleInfoKey(rule.key)].items)

\* C23: a rule "sum(K[i],K[j],...)" tests INFO[K][i] + INFO[K][j] + ...:
\* a record reaching it is discarded when that sum satisfies the threshold,
\* and, the rule being the only one, exactly then.
C23_SumTested ==
    (FirstRuleReached /\ SumsElements(FirstRule, call.vcf_line)) =>
        /\ _filter_info_field(SummedValue(FirstRule, call.vcf_line),
                              FirstRule.value) = "True"
              => ret = "False"
        /\ Len(filter_dict.INFO) = 1
              => ret = Bool(_filter_info_field(
                                SummedValue(FirstRule, call.vcf_line),
                                FirstRule.value) # "True")

\* "sum(DP4[2],DP4[3])" = "<2" alone: DP4 = 10,10,1,0 adds up to 1 and the
\* record is discarded
C23_Witness ==
    /\ FirstRuleReached
    /\ filter_dict.INFO = <<R_sum>>
    /\ call.vcf_line = V_sum1
    /\ SummedValue(R_sum, V_sum1) = N(1)
    /\ ret = "False"

\* the QUAL threshold is left unset: filter_dict["QUAL"] is -1
QualUnset == filter_dict.QUAL = -Scale

\* C24: with a QUAL threshold q configured a record of quality QUAL is
\* discarded by the QUAL check exactly when QUAL < q, QUAL = q passing the
\* check; with the threshold unset the QUAL check discards no record, of
\* negative QUAL either: the other checks alone decide.
C24_QualCheck ==
    (Returned("_filter_line") /\ ~call.vcf_line.QUAL.none) =>
        IF ~QualUnset /\ call.vcf_line.QUAL.val < filter_dict.QUAL
        THEN ret = "False"
        ELSE ret = Again([Self EXCEPT !.filter_dict.QUAL = -Scale])

\* threshold 50, a record of QUAL 50, kept
C24_Witness ==
    /\ Returned("_filter_line")
    /\ filter_dict.QUAL = N(50)
    /\ call.vcf_line = V_qual50
    /\ ret = "True"

\* the rule of key exactly "PV4" stands at place i and the record reaches it
ReachesPV4(i) ==
    /\ i \in 1..Len(filter_dict.INFO)
    /\ filter_dict.INFO[i].key = K_PV4
    /\ Again(WithRules(SubSeq(filter_dict.INFO, 1, i - 1))) = "True"
    /\ \A j \in 1..(i - 1) : ~StartsWith(filter_dict.INFO[j].key, S_sum)

\* C27: when the rules hold the key exactly "PV4" and the record is not
\* polymorphic, _filter_line returns keep as soon as that rule is reached,
\* whatever the PV4 rule and the rules after it would do; a key "PV4[0]"
\* gives no exemption and is tested as any indexed rule.
C27_PV4Exemption ==
    Returned("_filter_line") =>
        /\ (~Polymorphic(call.vcf_line) /\ \E i \in 1..Len(filter_dict.INFO) :
                ReachesPV4(i)) => ret = "True"
        /\ (/\ FirstRuleReached /\ FirstRule = R_PV4_0
            /\ K_PV4 \in DOMAIN call.vcf_line.INFO
            /\ call.vcf_line.INFO[K_PV4].items[1] < 5) => ret = "False"

\* a reference record of DP 10 and PV4[0] = 0.01 under the rules PV4 then
\* DP: both rules would discard it, and it is kept
C27_Witness ==
    /\ Returned("_filter_line")
    /\ filter_dict.INFO = <<R_PV4, R_DP>>
    /\ call.vcf_line = V_refPV4
    /\ ret = "True"

-----------------------------------------------------------------------------
(* Claims on the outputs and the configuration of filter_vcf, checked
   under Spec *)

\* the records of f at the places of K, in the order of f, from place i on
RECURSIVE RecordsAt(_, _, _)
RecordsAt(f, K, i) ==
    IF i > Len(f) THEN <<>>
    ELSE (IF i \in K THEN <<f[i]>> ELSE <<>>) \o RecordsAt(f, K, i + 1)

\* the places of the records that _filter_line keeps in the pass of frame f
KeptPlaces(f) ==
    {i \in 1..Len(file) :
        _filter_line(Self, file[i], Arg(f.filter_dict), Num(i - 1)) = "True"}

\* C26: after a completed pass the kept output holds the kept records in
\* file order; with output_filtered given the discarded output holds all
\* the other records in file order, so that every record is in exactly one
\* of the two; without it the discarded records are written nowhere.
C26_OneOutputEach ==
    pc = "done" =>
        /\ fv.out = RecordsAt(file, KeptPlaces(fv), 1)
        /\ fv.outf = IF fv.output_filtered
                     THEN RecordsAt(file, (1..Len(file)) \ KeptPlaces(fv), 1)
                     ELSE <<>>
        /\ fv.output_filtered => Len(fv.out) + Len(fv.outf) = Len(file)

\* a pass over a file of two records with output_filtered: the second is
\* in the kept output, the first in the discarded one
C26_Witness ==
    /\ pc = "done"
    /\ fv.output_filtered
    /\ file = <<V_lowDP, V_good>>
    /\ fv.out = <<V_good>>
    /\ fv.outf = <<V_lowDP>>

\* the step belongs to a filter_vcf call (its start, a turn of its loop with
\* the _filter_line call in it, its return or its exception) or is a direct
\* call of _filter_line
FilterCallStep ==
    \/ pc = "scanning"
    \/ pc' = "scanning"
    \/ call.fn = "none" /\ call'.fn = "_filter_line"

\* C29: no step of filter_vcf and no call of _filter_line changes the
\* configuration: filter_dict (QUAL, the INFO rules and their order), the
\* three apply_* flags and the DP4 and AF1 settings are after the step what
\* they were before it, also when the step ends with an exception.
C29_ConfigurationKept ==
    [][FilterCallStep => UNCHANGED cfgVars]_vars

\* a pass has ended with an exception and the rules configured before it
\* are still those the pass was started with
C29_Witness ==
    /\ pc = "raised"
    /\ fv.exc # ""
    /\ filter_dict.INFO # <<>>
    /\ filter_dict = fv.filter_dict

-----------------------------------------------------------------------------
(* Claim on the termination of TRF.scandata, checked under SpecTrfLive *)

\* C30: scandata terminates on every finite file, a file with no
\* "Sequence:" line included: the call returns or raises.
C30_Terminates == <>(pc \in {"done", "raised"})

====
